---- MODULE Spec2Model ----
EXTENDS Integers, Sequences, FiniteSets, TLC

(***************************************************************************)
(* Model of the fetch layer of fetch_quote: the backoff-retry fetcher, the  *)
(* cached fetch and the concurrency-limited map (utils/http.ts), the two   *)
(* provider adapters (providers/alpha_vantage.ts, providers/finnhub.ts),   *)
(* the provider registry (providers/registry.ts), the signal computation   *)
(* (utils/analysis.ts) and the indicators (indicators/rsi.ts, sma.ts,      *)
(* macd.ts).                                                               *)
(***************************************************************************)

VARIABLES
    \* ---- fetchJsonWithBackoff: one call in progress ----
    fpc,          \* "idle" | "running" | "returned" | "raised"
    o,            \* merged backoff options of the call
    attempt,      \* loop variable of the retry loop
    lastErr,      \* lastErr of the call (NoErr = undefined)
    requests,     \* number of fetch(url) calls issued by the call
    nsleeps,      \* number of sleep(d) waits of the call
    lastSleep,    \* duration of the most recent sleep(d), -1 before the first
    onRetry,      \* the callback given: "none" | "record" | "count"
    retries,      \* RetryInfo records a recording callback has received
    ncallbacks,   \* number of callback invocations
    lastResp,     \* what the transport answered to the most recent request
    transcript,   \* statuses answered so far, kept by a recording test transport
    fresult,      \* value returned or error raised by the call
    \* ---- ProviderRegistry ----
    providers,          \* the Map, as the sequence of its values in insertion order
    defaultProviderId,
    fallbackProviderId,
    \* ---- one registry operation in progress ----
    rpc,          \* "idle" | "walking" | "calling" | "returned" | "raised"
    rop,          \* "quote" | "daily" | "news" | "topnews"
    preferred,    \* preferredId of the operation (NoId = undefined)
    order,        \* the local array `providers` of the operation
    idx,          \* position of the for-of loop in order (1-based)
    lastError,    \* lastError of the operation (NoErr = null)
    rlog,         \* what happened to each candidate visited so far
    rresult,      \* value returned or error raised by the operation
    \* ---- a test that replays one transport script under several callbacks ----
    script,       \* the answers the transport gives, and the options of the calls
    outcomes,     \* per callback kind: requests issued and result of its call
    \* ---- cachedFetchJson: one call in progress, and the cache it is given ----
    cache,        \* the cache argument: "null" or the kind of cache object
    entry,        \* what the cache object holds for the URL
    now,          \* the clock
    cttl,         \* the ttlMs argument
    cpc,          \* "idle" | "fetching" | "returned" | "raised"
    cgot,         \* what cache.get(url) gave the call
    cresult,      \* value returned or error raised by the call
    \* ---- sleep timers and the user's abort ----
    nfired,       \* number of sleep(d) timers of the call that have fired
    waited,       \* ms the pending sleep(d) has lasted so far
    aborted,      \* the user has aborted (AbortController.abort() has run)
    abortedAt,    \* what the call was doing when the user aborted
    \* ---- mapLimit: one call in progress ----
    items,        \* the items argument
    limit,        \* the limit argument
    mi,           \* the local i: number of items started
    active,       \* the local active
    results,      \* the local results array
    inv,          \* what has become of fn(items[k], k), for each position k
    started,      \* the positions in the order fn was invoked on them
    mpromise,     \* the promise mapLimit returns
    queue,        \* the reactions of the invocations' promises waiting to run, oldest first
    rejections,   \* the invocations that rejected, in the order they did
    \* ---- one call of a synchronous function (signal, quote mapping, indicators) ----
    call,         \* the function called and its arguments
    frame,        \* the locals of a function that is followed step by step
    ret,          \* what the call returned
    \* ---- the alerts file and one checkAlerts run ----
    alerts,       \* the alerts of the file, in its order
    apc,          \* "idle" | "checking" | "updating"
    loaded,       \* the local alerts of the run: what loadAlerts gave it
    ai,           \* position of the for-of loop in loaded (1-based)
    events,       \* the local events of the run
    alog,         \* every evaluation of an alert so far: when, and whether an event was made
    \* ---- one WatchMode or AlertMonitor instance and the start() calls on it ----
    instance,     \* "none" | "WatchMode" | "AlertMonitor"
    isRunning,    \* state.isRunning / this.isRunning
    timeoutId,    \* this.timeoutId: 0 for null, else the start() call whose delay set it
    signalAborted, \* the AbortController of the test has aborted
    loops,        \* the start() calls in their order: where each one is
    \* ---- cachedFetchJson calls in flight together over one cache ----
    rcalls,       \* the calls: url, position, attempts made, payload obtained
    rcache,       \* the Map of the cache object: per URL, the data stored or NoData
    rfetched      \* the payloads successful network fetches have returned, with their URL

fvars == <<fpc, o, attempt, lastErr, requests, nsleeps, lastSleep, onRetry,
           retries, ncallbacks, lastResp, transcript, fresult>>
regvars == <<providers, defaultProviderId, fallbackProviderId>>
opvars == <<rpc, rop, preferred, order, idx, lastError, rlog, rresult>>
cbvars == <<script, outcomes>>
\* the variables outside the fetcher, the registry and its operation
cachevars == <<cache, entry, now, cttl, cpc, cgot, cresult>>
abortvars == <<nfired, waited, aborted, abortedAt>>
mlvars == <<items, limit, mi, active, results, inv, started, mpromise, queue,
            rejections>>
purevars == <<call, frame, ret>>
alertvars == <<alerts, apc, loaded, ai, events, alog>>
loopvars == <<instance, isRunning, timeoutId, signalAborted, loops>>
racevars == <<rcalls, rcache, rfetched>>
yvars == <<alertvars, loopvars, racevars>>
xvars == <<cbvars, cachevars, abortvars, mlvars, purevars, yvars>>
vars == <<fvars, regvars, opvars, xvars>>

\* ------------------------------------------------------------------------
\* Bounds of the model
\* ------------------------------------------------------------------------
\* largest maxRetries a direct caller of fetchJsonWithBackoff passes
MaxRetries == 2
\* largest number of providers registered
MaxProviders == 3
\* largest reading of the clock
MaxClock == 3
\* longest items array given to mapLimit
MaxItems == 3
\* largest 52-week high given to determineSignal, in cents
MaxPrice == 20
\* longest bar series given to an indicator
MaxBars == 4
\* largest close of a bar
MaxClose == 4
\* largest period given to calculateRSI and calculateSMA
MaxPeriod == 3
\* most evaluations of alerts followed
MaxEvaluations == 4
\* most start() calls on one WatchMode or AlertMonitor
MaxStarts == 2
\* most concurrent cachedFetchJson calls
MaxCalls == 2
\* largest close of a constant series, in cents
MaxCents == 30
\* largest limit given to mapLimit
MaxLimit == 2

\* ------------------------------------------------------------------------
\* Small helpers
\* ------------------------------------------------------------------------
Min(a, b) == IF a <= b THEN a ELSE b
Max(a, b) == IF a >= b THEN a ELSE b

RECURSIVE Pow(_, _)
Pow(b, n) == IF n = 0 THEN 1 ELSE b * Pow(b, n - 1)

Range(s) == {s[i] : i \in DOMAIN s}

\* ------------------------------------------------------------------------
\* Numbers: a finite number is an exact fraction num/den in lowest terms with
\* den > 0; the other values of a number are NaN and the two infinities
\* ------------------------------------------------------------------------
Abs(n) == IF n < 0 THEN -n ELSE n

RECURSIVE Gcd(_, _)
Gcd(a, b) == IF b = 0 THEN a ELSE Gcd(b, a % b)

\* the fraction n/d, d # 0
Rat(n, d) ==
    LET g == Gcd(Abs(n), Abs(d))
        sgn == IF d < 0 THEN -1 ELSE 1
    IN [num |-> sgn * (n \div g), den |-> sgn * (d \div g)]

\* the whole number n
Whole(n) == Rat(n, 1)
Zero == Whole(0)

\* the values that are no finite number are written with den = 0
NaN == [num |-> 0, den |-> 0]
PosInfinity == [num |-> 1, den |-> 0]
NegInfinity == [num |-> -1, den |-> 0]

\* Number.isFinite(x)
isFinite(x) == x.den # 0

\* arithmetic and comparisons of finite numbers
RAdd(a, b) == Rat(a.num * b.den + b.num * a.den, a.den * b.den)
RSub(a, b) == Rat(a.num * b.den - b.num * a.den, a.den * b.den)
RMul(a, b) == Rat(a.num * b.num, a.den * b.den)
RDiv(a, b) == Rat(a.num * b.den, a.den * b.num)
RLe(a, b) == a.num * b.den <= b.num * a.den
RLt(a, b) == a.num * b.den < b.num * a.den

\* Math.round(x * 100) / 100: Math.round rounds a half up
Round2(x) == Rat((200 * x.num + x.den) \div (2 * x.den), 100)

\* ------------------------------------------------------------------------
\* Response bodies
\* ------------------------------------------------------------------------
Absent == "<absent>"
NonString == "<number>"

\* texts a Note / Information field carries
NoteTexts == {"Thank you for using Alpha Vantage",
              "Our standard API rate LIMIT is 25 requests per day",
              "API call Frequency is 5 calls per minute",
              "Please Consider upgrading"}

\* String.prototype.toLowerCase on the texts above
toLowerCase(s) ==
    CASE s = "Thank you for using Alpha Vantage" -> "thank you for using alpha vantage"
      [] s = "Our standard API rate LIMIT is 25 requests per day"
             -> "our standard api rate limit is 25 requests per day"
      [] s = "API call Frequency is 5 calls per minute"
             -> "api call frequency is 5 calls per minute"
      [] s = "Please Consider upgrading" -> "please consider upgrading"
      [] OTHER -> s

\* String.prototype.includes on the texts above
includes(s, w) ==
    CASE w = "frequency" -> s \in {"api call frequency is 5 calls per minute",
                                   "API call frequency"}
      [] w = "limit" -> s \in {"our standard api rate limit is 25 requests per day"}
      [] w = "please consider" -> s \in {"please consider upgrading"}
      [] OTHER -> FALSE

\* a response body: fmt "empty" is the empty text, "text" is text that is no
\* JSON, "json" is JSON text; payload says what provider data the JSON holds:
\* "data" usable data, "zero" the provider's own no-data reply, "nofield" an
\* object without the data fields, "null" the JSON value null
Body(fmt, note, info, payload) ==
    [fmt |-> fmt, Note |-> note, Information |-> info, payload |-> payload]

EmptyBody == Body("empty", Absent, Absent, "nofield")
TextBody == Body("text", Absent, Absent, "nofield")
NullBody == Body("json", Absent, Absent, "null")
EmptyObject == Body("json", Absent, Absent, "nofield")
DataBody == Body("json", Absent, Absent, "data")
ZeroBody == Body("json", Absent, Absent, "zero")

NotedBodies ==
    {Body("json", t, Absent, "nofield") : t \in NoteTexts}
    \cup {Body("json", Absent, "Our standard API rate LIMIT is 25 requests per day", "nofield"),
          Body("json", "Thank you for using Alpha Vantage",
               "Our standard API rate LIMIT is 25 requests per day", "nofield"),
          Body("json", NonString, "Please Consider upgrading", "nofield")}

Bodies == {EmptyBody, TextBody, NullBody, EmptyObject, DataBody, ZeroBody}
          \cup NotedBodies

\* JSON.parse(text) throws
ParseFails(body) == body.fmt = "text"

\* text ? JSON.parse(text) : {}
Parse(body) == IF body.fmt = "empty" THEN EmptyObject ELSE body

\* isAVSoftLimit comparing the note as it is, without toLowerCase()
isAVSoftLimitCaseSensitive(obj) ==
    IF obj.payload = "null" \/ obj.fmt # "json" THEN FALSE
    ELSE LET note == IF obj.Note # Absent THEN obj.Note ELSE obj.Information
         IN IF note \in {Absent, NonString} THEN FALSE
            ELSE includes(note, "frequency") \/ includes(note, "limit")
                 \/ includes(note, "please consider")

isAVSoftLimit(obj) ==
    IF obj.payload = "null" \/ obj.fmt # "json" THEN FALSE
    ELSE LET note == IF obj.Note # Absent THEN obj.Note ELSE obj.Information
         IN IF note \in {Absent, NonString} THEN FALSE
            ELSE LET s == toLowerCase(note)
                 IN includes(s, "frequency") \/ includes(s, "limit")
                    \/ includes(s, "please consider")

\* ------------------------------------------------------------------------
\* Transport answers
\* ------------------------------------------------------------------------
\* status 0: fetch(url) rejects (network error)
NetworkFailure == [status |-> 0, body |-> EmptyBody]

LimitNoteBody == Body("json", "Our standard API rate LIMIT is 25 requests per day",
                      Absent, "nofield")

Responses ==
    {NetworkFailure}
    \cup [status : {200}, body : Bodies]
    \cup [status : {404}, body : {EmptyBody, TextBody, EmptyObject, LimitNoteBody}]
    \cup [status : {429, 503}, body : {EmptyBody, LimitNoteBody}]

\* res.ok
ok(resp) == resp.status >= 200 /\ resp.status <= 299

isRetryableStatus(status) == status = 429 \/ (status >= 500 /\ status <= 599)

\* ------------------------------------------------------------------------
\* Errors
\* ------------------------------------------------------------------------
NoId == "<none>"

Err(kind, status, body, from) ==
    [kind |-> kind, status |-> status, body |-> body, from |-> from]

NoErr == Err("none", 0, EmptyBody, NoId)
\* the TypeError fetch() rejects with
NetErr == Err("network", 0, EmptyBody, NoId)
\* new Error(`HTTP ${res.status}: ${text || "<empty>"}`)
HttpErr(resp) == Err("http", resp.status, resp.body, NoId)
\* new Error("fetchJsonWithBackoff: failed after retries")
RetriesErr == Err("retries", 0, EmptyBody, NoId)
\* what a throwing onRetry callback throws
CallbackErr == Err("callback", 0, EmptyBody, NoId)

NoValue == Body("none", Absent, Absent, "none")
Returned(v) == [ok |-> TRUE, value |-> v, err |-> NoErr]
Raised(e) == [ok |-> FALSE, value |-> NoValue, err |-> e]
NoResult == [ok |-> FALSE, value |-> NoValue, err |-> NoErr]

\* ------------------------------------------------------------------------
\* Backoff options
\* ------------------------------------------------------------------------
BACKOFF_DEFAULTS ==
    [maxRetries |-> 6, baseDelayMs |-> 800, factor |-> 2, maxDelayMs |-> 30000,
     jitterMs |-> 400]

SoftLimitMinDelayMs == 10000

\* the BackoffOpts objects direct callers pass
BackoffOpts ==
    UNION {{[maxRetries |-> m],
            [maxRetries |-> m, baseDelayMs |-> 12000, factor |-> 1, jitterMs |-> 0],
            [maxRetries |-> m, baseDelayMs |-> 500, factor |-> 3, maxDelayMs |-> 1500,
             jitterMs |-> 1]} : m \in 0..MaxRetries}

\* { ...BACKOFF_DEFAULTS, ...backoff }
MergeOpts(backoff) ==
    [k \in DOMAIN BACKOFF_DEFAULTS |->
        IF k \in DOMAIN backoff THEN backoff[k] ELSE BACKOFF_DEFAULTS[k]]

\* values of Math.floor(Math.random() * (jitterMs + 1)) the model draws: the
\* two ends of the range 0..jitterMs
JitterValues(opts) == {0, opts.jitterMs}

\* baseDelay dividing by factor^attempt instead of multiplying
baseDelayDividing(att, opts) ==
    Min(opts.maxDelayMs, opts.baseDelayMs \div Pow(opts.factor, att))

\* the part of computeDelay without the jitter
baseDelay(att, opts) ==
    Min(opts.maxDelayMs, opts.baseDelayMs * Pow(opts.factor, att))

computeDelay(att, opts, jitter) == baseDelay(att, opts) + jitter

\* ------------------------------------------------------------------------
\* fetchJsonWithBackoff
\* ------------------------------------------------------------------------
Reason(why, status) == [why |-> why, status |-> status]

RetryInfo(att, d, reason) == [attempt |-> att, delayMs |-> d, reason |-> reason]

\* onRetry?.({attempt, delayMs: d, reason}); await sleep(d), for a callback
\* that returns
NotifyAndSleep(d, reason) ==
    /\ onRetry # "throws"
    /\ retries' = IF onRetry = "record"
                  THEN Append(retries, RetryInfo(attempt, d, reason))
                  ELSE retries
    /\ ncallbacks' = IF onRetry = "none" THEN ncallbacks ELSE ncallbacks + 1
    /\ nsleeps' = nsleeps + 1
    /\ lastSleep' = d

\* the state of a call that has just been entered
EnterFetch(backoff, cb) ==
    /\ fpc' = "running"
    /\ o' = MergeOpts(backoff)
    /\ attempt' = 0
    /\ lastErr' = NoErr
    /\ requests' = 0
    /\ nsleeps' = 0
    /\ lastSleep' = -1
    /\ onRetry' = cb
    /\ retries' = <<>>
    /\ ncallbacks' = 0
    /\ lastResp' = NetworkFailure
    /\ transcript' = <<>>
    /\ fresult' = NoResult

\* a direct call fetchJsonWithBackoff(url, backoff, onRetry)
FetchCall(backoff, cb) ==
    /\ fpc = "idle"
    /\ rpc = "idle"
    /\ EnterFetch(backoff, cb)
    /\ UNCHANGED <<regvars, opvars,
                   xvars>>

\* the loop condition with < in place of <=
InLoopOneShort == fpc = "running" /\ attempt < o.maxRetries

\* for (let attempt = 0; attempt <= o.maxRetries; attempt++)
InLoop == fpc = "running" /\ attempt <= o.maxRetries

\* await fetch(url) is answered by resp
Request(resp) ==
    /\ requests' = requests + 1
    /\ lastResp' = resp
    /\ transcript' = IF onRetry = "record" THEN Append(transcript, resp.status)
                     ELSE transcript

\* lines 127-132: HTTP 429 or 5xx
HttpRetryable(resp, jitter) ==
    /\ InLoop
    /\ resp.status # 0
    /\ isRetryableStatus(resp.status)
    /\ Request(resp)
    /\ NotifyAndSleep(computeDelay(attempt, o, jitter), Reason("HTTP", resp.status))
    /\ attempt' = attempt + 1
    /\ UNCHANGED <<fpc, o, lastErr, onRetry, fresult, regvars, opvars,
                   xvars>>

\* lines 144-149: the parsed body is a soft limit
SoftLimited(resp, jitter) ==
    /\ InLoop
    /\ resp.status # 0
    /\ ~isRetryableStatus(resp.status)
    /\ ~ParseFails(resp.body)
    /\ isAVSoftLimit(Parse(resp.body))
    /\ Request(resp)
    /\ NotifyAndSleep(Max(SoftLimitMinDelayMs, computeDelay(attempt, o, jitter)),
                      Reason("soft limit", 0))
    /\ attempt' = attempt + 1
    /\ UNCHANGED <<fpc, o, lastErr, onRetry, fresult, regvars, opvars,
                   xvars>>

\* lines 138-141: the body of an ok response is no JSON: the text is returned
ReturnText(resp) ==
    /\ InLoop
    /\ resp.status # 0
    /\ ~isRetryableStatus(resp.status)
    /\ ParseFails(resp.body)
    /\ ok(resp)
    /\ Request(resp)
    /\ fpc' = "returned"
    /\ fresult' = Returned(resp.body)
    /\ UNCHANGED <<o, attempt, lastErr, nsleeps, lastSleep, onRetry, retries,
                   ncallbacks, regvars, opvars,
                   xvars>>

\* lines 151-152: an ok response with a parsed body that is no soft limit
ReturnData(resp) ==
    /\ InLoop
    /\ resp.status # 0
    /\ ~isRetryableStatus(resp.status)
    /\ ~ParseFails(resp.body)
    /\ ~isAVSoftLimit(Parse(resp.body))
    /\ ok(resp)
    /\ Request(resp)
    /\ fpc' = "returned"
    /\ fresult' = Returned(Parse(resp.body))
    /\ UNCHANGED <<o, attempt, lastErr, nsleeps, lastSleep, onRetry, retries,
                   ncallbacks, regvars, opvars,
                   xvars>>

\* what the try block throws for resp, NoErr when it throws nothing:
\* fetch() rejecting (line 124), or the throws of lines 139 and 151
Thrown(resp) ==
    IF resp.status = 0 THEN NetErr
    ELSE IF isRetryableStatus(resp.status) THEN NoErr
    ELSE IF ParseFails(resp.body) THEN (IF ok(resp) THEN NoErr ELSE HttpErr(resp))
    ELSE IF isAVSoftLimit(Parse(resp.body)) THEN NoErr
    ELSE IF ok(resp) THEN NoErr ELSE HttpErr(resp)

\* lines 153-158: the catch block
Caught(resp, jitter) ==
    /\ InLoop
    /\ Thrown(resp) # NoErr
    /\ Request(resp)
    /\ lastErr' = Thrown(resp)
    /\ NotifyAndSleep(computeDelay(attempt, o, jitter),
                      Reason("error", Thrown(resp).status))
    /\ attempt' = attempt + 1
    /\ UNCHANGED <<fpc, o, onRetry, fresult, regvars, opvars,
                   xvars>>

\* the answer makes the code invoke onRetry: it does not make the call return
Notifies(resp) ==
    \/ Thrown(resp) # NoErr
    \/ resp.status # 0 /\ isRetryableStatus(resp.status)
    \/ /\ resp.status # 0
       /\ ~isRetryableStatus(resp.status)
       /\ ~ParseFails(resp.body)
       /\ isAVSoftLimit(Parse(resp.body))

\* onRetry throws. Invoked in the try block (lines 129, 146) its error is
\* caught by the catch block, which stores it and invokes onRetry again (line
\* 156); invoked in the catch block its error leaves the function. Either
\* way the call raises the callback's error without a wait.
CallbackThrows(resp) ==
    /\ InLoop
    /\ onRetry = "throws"
    /\ Notifies(resp)
    /\ Request(resp)
    /\ lastErr' = IF Thrown(resp) # NoErr THEN Thrown(resp) ELSE CallbackErr
    /\ ncallbacks' = ncallbacks + (IF Thrown(resp) # NoErr THEN 1 ELSE 2)
    /\ fpc' = "raised"
    /\ fresult' = Raised(CallbackErr)
    /\ UNCHANGED <<o, attempt, nsleeps, lastSleep, onRetry, retries, regvars,
                   opvars, xvars>>

\* line 160: the loop has ended
Exhausted ==
    /\ fpc = "running"
    /\ ~InLoop
    /\ fpc' = "raised"
    /\ fresult' = Raised(IF lastErr # NoErr THEN lastErr ELSE RetriesErr)
    /\ UNCHANGED <<o, attempt, lastErr, requests, nsleeps, lastSleep, onRetry,
                   retries, ncallbacks, lastResp, transcript, regvars, opvars,
                   xvars>>

\* the direct caller has its result; the next call may start
FetchDone ==
    /\ fpc \in {"returned", "raised"}
    /\ rpc = "idle"
    /\ fpc' = "idle"
    /\ UNCHANGED <<o, attempt, lastErr, requests, nsleeps, lastSleep, onRetry,
                   retries, ncallbacks, lastResp, transcript, fresult, regvars,
                   opvars,
                   xvars>>

\* ------------------------------------------------------------------------
\* Providers
\* ------------------------------------------------------------------------
\* a DataProvider object: kind "mock" is a test double whose calls may do
\* anything the interface allows; key says whether the adapter holds a
\* non-empty apiKey; news whether fetchNews / fetchTopNews are defined
Provider(id, kind, key, news) == [id |-> id, kind |-> kind, key |-> key, news |-> news]

MockIds == {"p1", "p2", "p3", "p4"}
\* the test doubles: one object per id, and a second object with the id p1
MockProviders ==
    {Provider("p1", "mock", TRUE, TRUE), Provider("p1", "mock", TRUE, FALSE),
     Provider("p2", "mock", TRUE, TRUE), Provider("p3", "mock", TRUE, FALSE),
     Provider("p4", "mock", TRUE, TRUE)}

AdapterIds == {"alpha_vantage", "finnhub"}
AdapterProviders == {Provider(id, id, k, TRUE) : id \in AdapterIds, k \in BOOLEAN}

\* ids a caller passes as preferredId: registered or not, or none
UnknownId == "unknown"

\* what a provider operation returns
ProviderValue(id, op, sound) == [from |-> id, what |-> op, sound |-> sound]
EmptyList == [from |-> NoId, what |-> "empty list", sound |-> TRUE]

\* errors of providers and of the registry
ProviderErr(id) == Err("provider", 0, EmptyBody, id)
AvailableErr(id) == Err("isAvailable", 0, EmptyBody, id)
\* new Error(`No quote data for ${symbol}`) / `No daily data for ${symbol}`
NoDataErr(id) == Err("no data", 0, EmptyBody, id)
\* new Error(`All providers failed for ${symbol}`)
AllFailedErr(op) == Err("all providers failed", 0, EmptyBody, op)

\* ------------------------------------------------------------------------
\* ProviderRegistry
\* ------------------------------------------------------------------------
\* this.providers.has(id)
has(id) == \E i \in DOMAIN providers : providers[i].id = id

\* this.get(id), for a registered id
get(id) == providers[CHOOSE i \in DOMAIN providers : providers[i].id = id]

\* register(provider): Map.set keeps the position of a key it already holds
register(p) ==
    /\ rpc = "idle"
    /\ fpc = "idle"
    /\ IF has(p.id)
       THEN providers' = [i \in DOMAIN providers |->
                             IF providers[i].id = p.id THEN p ELSE providers[i]]
       ELSE /\ Len(providers) < MaxProviders
            /\ providers' = Append(providers, p)
    /\ UNCHANGED <<defaultProviderId, fallbackProviderId, fvars, opvars,
                   xvars>>

\* setDefault(id): throws, changing nothing, for an id that is not registered
setDefault(id) ==
    /\ rpc = "idle"
    /\ fpc = "idle"
    /\ defaultProviderId' = IF has(id) THEN id ELSE defaultProviderId
    /\ UNCHANGED <<providers, fallbackProviderId, fvars, opvars,
                   xvars>>

\* setFallback(id)
setFallback(id) ==
    /\ rpc = "idle"
    /\ fpc = "idle"
    /\ fallbackProviderId' = IF has(id) THEN id ELSE fallbackProviderId
    /\ UNCHANGED <<providers, defaultProviderId, fvars, opvars,
                   xvars>>

\* getProviderOrder without the test that the default differs from preferredId
getProviderOrderNoDedup(preferredId) ==
    LET o1 == IF preferredId # NoId /\ has(preferredId)
              THEN <<get(preferredId)>> ELSE <<>>
        o2 == IF defaultProviderId # NoId
              THEN Append(o1, get(defaultProviderId)) ELSE o1
        o3 == IF /\ fallbackProviderId # NoId
                 /\ fallbackProviderId # preferredId
                 /\ fallbackProviderId # defaultProviderId
              THEN Append(o2, get(fallbackProviderId)) ELSE o2
    IN o3 \o SelectSeq(providers, LAMBDA p : p \notin Range(o3))

getProviderOrder(preferredId) ==
    LET o1 == IF preferredId # NoId /\ has(preferredId)
              THEN <<get(preferredId)>> ELSE <<>>
        o2 == IF defaultProviderId # NoId /\ defaultProviderId # preferredId
              THEN Append(o1, get(defaultProviderId)) ELSE o1
        o3 == IF /\ fallbackProviderId # NoId
                 /\ fallbackProviderId # preferredId
                 /\ fallbackProviderId # defaultProviderId
              THEN Append(o2, get(fallbackProviderId)) ELSE o2
    IN o3 \o SelectSeq(providers, LAMBDA p : p \notin Range(o3))

NewsOps == {"news", "topnews"}
DataOps == {"quote", "daily"}

\* the candidates of an operation: for the news operations those that define
\* the news function
Candidates(op, preferredId) ==
    IF op \in NewsOps
    THEN SelectSeq(getProviderOrder(preferredId), LAMBDA p : p.news)
    ELSE getProviderOrder(preferredId)

\* what the loop did with one candidate
Visit(p, avail, outcome, err, data) ==
    [id |-> p.id, avail |-> avail, outcome |-> outcome, err |-> err, data |-> data,
     requests |-> requests, nsleeps |-> nsleeps, ncallbacks |-> ncallbacks]

\* fetchQuote / fetchDaily / fetchNews / fetchTopNews are entered
RegistryCall(op, preferredId) ==
    /\ rpc = "idle"
    /\ fpc = "idle"
    /\ rpc' = "walking"
    /\ rop' = op
    /\ preferred' = preferredId
    /\ order' = Candidates(op, preferredId)
    /\ idx' = 1
    /\ lastError' = NoErr
    /\ rlog' = <<>>
    /\ rresult' = NoResult
    /\ UNCHANGED <<fvars, regvars,
                   xvars>>

AtCandidate == rpc = "walking" /\ idx <= Len(order)

\* isAvailable() returns false: the candidate is passed over
IsAvailableFalse ==
    /\ AtCandidate
    /\ order[idx].kind = "mock" \/ ~order[idx].key
    /\ rlog' = Append(rlog, Visit(order[idx], "false", "skipped", NoErr, NoValue))
    /\ idx' = idx + 1
    /\ UNCHANGED <<rpc, rop, preferred, order, lastError, rresult, fvars, regvars,
                   xvars>>

\* isAvailable() of a test double throws: the catch block records the error
IsAvailableThrows ==
    /\ AtCandidate
    /\ order[idx].kind = "mock"
    /\ lastError' = AvailableErr(order[idx].id)
    /\ rlog' = Append(rlog, Visit(order[idx], "throws", "failed",
                                  AvailableErr(order[idx].id), NoValue))
    /\ idx' = idx + 1
    /\ UNCHANGED <<rpc, rop, preferred, order, rresult, fvars, regvars,
                   xvars>>

\* an available test double answers the operation
MockSucceeds ==
    /\ AtCandidate
    /\ order[idx].kind = "mock"
    /\ rlog' = Append(rlog, Visit(order[idx], "true", "ok", NoErr, NoValue))
    /\ rpc' = "returned"
    /\ rresult' = Returned(ProviderValue(order[idx].id, rop, TRUE))
    /\ UNCHANGED <<rop, preferred, order, idx, lastError, fvars, regvars,
                   xvars>>

\* MockFails with the error leaving the loop instead of being caught
MockFailsUncaught ==
    /\ AtCandidate
    /\ order[idx].kind = "mock"
    /\ lastError' = ProviderErr(order[idx].id)
    /\ rlog' = Append(rlog, Visit(order[idx], "true", "failed",
                                  ProviderErr(order[idx].id), NoValue))
    /\ rpc' = "raised"
    /\ rresult' = Raised(ProviderErr(order[idx].id))
    /\ UNCHANGED <<rop, preferred, order, idx, fvars, regvars,
                   xvars>>

\* the operation of an available test double throws
MockFails ==
    /\ AtCandidate
    /\ order[idx].kind = "mock"
    /\ lastError' = ProviderErr(order[idx].id)
    /\ rlog' = Append(rlog, Visit(order[idx], "true", "failed",
                                  ProviderErr(order[idx].id), NoValue))
    /\ idx' = idx + 1
    /\ UNCHANGED <<rpc, rop, preferred, order, rresult, fvars, regvars,
                   xvars>>

\* RegistryExhausted raising the generic error whatever lastError is
RegistryExhaustedGeneric ==
    /\ rpc = "walking"
    /\ idx > Len(order)
    /\ IF rop \in NewsOps
       THEN /\ rpc' = "returned"
            /\ rresult' = Returned(EmptyList)
       ELSE /\ rpc' = "raised"
            /\ rresult' = Raised(AllFailedErr(rop))
    /\ UNCHANGED <<rop, preferred, order, idx, lastError, rlog, fvars, regvars,
                   xvars>>

\* RegistryExhausted treating the news operations like the data operations
RegistryExhaustedNewsRaises ==
    /\ rpc = "walking"
    /\ idx > Len(order)
    /\ rpc' = "raised"
    /\ rresult' = Raised(IF lastError # NoErr THEN lastError ELSE AllFailedErr(rop))
    /\ UNCHANGED <<rop, preferred, order, idx, lastError, rlog, fvars, regvars,
                   xvars>>

\* the loop has ended without a return
RegistryExhausted ==
    /\ rpc = "walking"
    /\ idx > Len(order)
    /\ IF rop \in NewsOps
       THEN /\ rpc' = "returned"
            /\ rresult' = Returned(EmptyList)
       ELSE /\ rpc' = "raised"
            /\ rresult' = Raised(IF lastError # NoErr THEN lastError
                                 ELSE AllFailedErr(rop))
    /\ UNCHANGED <<rop, preferred, order, idx, lastError, rlog, fvars, regvars,
                   xvars>>

\* the caller has its result and the frame of the operation is gone; the
\* registry may be used again
RegistryDone ==
    /\ rpc \in {"returned", "raised"}
    /\ rpc' = "idle"
    /\ rop' = "quote"
    /\ preferred' = NoId
    /\ order' = <<>>
    /\ idx' = 1
    /\ lastError' = NoErr
    /\ rlog' = <<>>
    /\ rresult' = NoResult
    /\ UNCHANGED <<fvars, regvars,
                   xvars>>

\* ------------------------------------------------------------------------
\* The adapters: AlphaVantageProvider and FinnhubProvider
\* ------------------------------------------------------------------------
\* {} : no backoff options given
NoOpts == <<>>

\* the adapter throws "No quote data" / "No daily data" for the value the
\* fetcher returned
ThrowsNoData(kind, op, data) ==
    CASE kind = "alpha_vantage" /\ op = "quote" ->
            \* const q = data?.["Global Quote"]; if (!q || !q["05. price"])
            data.fmt # "json" \/ data.payload # "data"
      [] kind = "alpha_vantage" /\ op = "daily" ->
            \* const rows = data?.["Time Series (Daily)"]; if (!rows)
            data.fmt # "json" \/ data.payload # "data"
      [] kind = "finnhub" /\ op = "quote" ->
            \* if (!data || data.c === 0)
            data.fmt = "json" /\ data.payload \in {"null", "zero"}
      [] kind = "finnhub" /\ op = "daily" ->
            \* if (!data || data.s !== "ok" || !data.t)
            data.fmt # "json" \/ data.payload # "data"
      [] OTHER -> FALSE

\* provider.fetchQuote(symbol) / fetchDaily(symbol, days) of an available
\* adapter: cachedFetchJson(url, null, ttl, undefined, onRetry) enters
\* fetchJsonWithBackoff with the default options
AdapterFetch ==
    /\ AtCandidate
    /\ order[idx].kind \in AdapterIds
    /\ order[idx].key
    /\ rop \in DataOps
    /\ fpc = "idle"
    /\ rpc' = "calling"
    /\ EnterFetch(NoOpts, "count")
    /\ UNCHANGED <<rop, preferred, order, idx, lastError, rlog, rresult, regvars,
                   xvars>>

\* the frame of the finished fetchJsonWithBackoff call is gone
LeaveFetch ==
    /\ fpc' = "idle"
    /\ o' = BACKOFF_DEFAULTS
    /\ attempt' = 0
    /\ lastErr' = NoErr
    /\ requests' = 0
    /\ nsleeps' = 0
    /\ lastSleep' = -1
    /\ onRetry' = "none"
    /\ retries' = <<>>
    /\ ncallbacks' = 0
    /\ lastResp' = NetworkFailure
    /\ transcript' = <<>>
    /\ fresult' = NoResult

\* the fetcher raised: the adapter lets the error through, the registry's
\* catch block records it
AdapterFetchRaised ==
    /\ rpc = "calling"
    /\ fpc = "raised"
    /\ lastError' = fresult.err
    /\ rlog' = Append(rlog, Visit(order[idx], "true", "failed", fresult.err, NoValue))
    /\ idx' = idx + 1
    /\ rpc' = "walking"
    /\ LeaveFetch
    /\ UNCHANGED <<rop, preferred, order, rresult, regvars,
                   xvars>>

\* the fetcher returned a value the adapter rejects
AdapterThrowsNoData ==
    /\ rpc = "calling"
    /\ fpc = "returned"
    /\ ThrowsNoData(order[idx].kind, rop, fresult.value)
    /\ lastError' = NoDataErr(order[idx].id)
    /\ rlog' = Append(rlog, Visit(order[idx], "true", "failed",
                                  NoDataErr(order[idx].id), fresult.value))
    /\ idx' = idx + 1
    /\ rpc' = "walking"
    /\ LeaveFetch
    /\ UNCHANGED <<rop, preferred, order, rresult, regvars,
                   xvars>>

\* the fetcher returned a value the adapter turns into a Quote / DailyBar[]
AdapterReturns ==
    /\ rpc = "calling"
    /\ fpc = "returned"
    /\ ~ThrowsNoData(order[idx].kind, rop, fresult.value)
    /\ rlog' = Append(rlog, Visit(order[idx], "true", "ok", NoErr, fresult.value))
    /\ rpc' = "returned"
    /\ rresult' = Returned(ProviderValue(order[idx].id, rop,
                                         fresult.value.fmt = "json"
                                         /\ fresult.value.payload = "data"))
    /\ LeaveFetch
    /\ UNCHANGED <<rop, preferred, order, idx, lastError, regvars,
                   xvars>>

\* what the upstream of an adapter answers
AdapterResponses ==
    {NetworkFailure,
     [status |-> 429, body |-> EmptyBody],
     [status |-> 404, body |-> EmptyObject],
     [status |-> 200, body |-> LimitNoteBody]}
    \cup [status : {200},
          body : {DataBody, ZeroBody, EmptyObject, EmptyBody, TextBody, NullBody}]

\* ------------------------------------------------------------------------
\* One transport script replayed under each kind of callback
\* ------------------------------------------------------------------------
\* the callbacks a caller passes: none, one that returns, one that throws
Callbacks == {"none", "record", "throws"}

\* the answers a scripted transport gives
ScriptAnswers ==
    {NetworkFailure,
     [status |-> 429, body |-> EmptyBody],
     [status |-> 404, body |-> TextBody],
     [status |-> 200, body |-> DataBody],
     [status |-> 200, body |-> TextBody],
     [status |-> 200, body |-> LimitNoteBody]}

\* one answer for each request a call can issue
Scripts == [1..(MaxRetries + 1) -> ScriptAnswers]

NoScript == [answers |-> <<>>, backoff |-> NoOpts]

NoOutcome == [requests |-> -1, result |-> NoResult]
NoOutcomes == [cb \in Callbacks |-> NoOutcome]

\* the transport is given a new script
NewScript(answers, backoff) ==
    /\ fpc = "idle"
    /\ rpc = "idle"
    /\ script = NoScript \/ \A cb \in Callbacks : outcomes[cb] # NoOutcome
    /\ script' = [answers |-> answers, backoff |-> backoff]
    /\ outcomes' = NoOutcomes
    /\ UNCHANGED <<yvars, fvars, regvars, opvars, cachevars, abortvars, mlvars,
                   purevars>>

\* fetchJsonWithBackoff(url, backoff, cb) against the scripted transport
ScriptedCall(cb) ==
    /\ fpc = "idle"
    /\ rpc = "idle"
    /\ script # NoScript
    /\ outcomes[cb] = NoOutcome
    /\ EnterFetch(script.backoff, cb)
    /\ UNCHANGED <<regvars, opvars, xvars>>

\* the scripted transport has an answer for the next request
HasAnswer == fpc = "running" /\ requests < Len(script.answers)

\* its answer to the next request
Answer == script.answers[requests + 1]

\* the call has settled: the test notes what it did
ScriptedDone ==
    /\ fpc \in {"returned", "raised"}
    /\ script # NoScript
    /\ outcomes' = [outcomes EXCEPT ![onRetry] =
                        [requests |-> requests, result |-> fresult]]
    /\ LeaveFetch
    /\ UNCHANGED <<yvars, regvars, opvars, script, cachevars, abortvars, mlvars,
                   purevars>>

\* ------------------------------------------------------------------------
\* cachedFetchJson and the cache object it is given
\* ------------------------------------------------------------------------
\* the cache objects a caller passes: one whose get() returns whatever it
\* holds ("keeping"), one whose get() returns null for an entry past its TTL
\* ("pruning")
CacheObjects == {"keeping", "pruning"}

\* the ttlMs arguments, in ticks of the clock
Ttls == {1, 2}

\* the backoff arguments: { maxRetries: m }
RetryOpts == {[maxRetries |-> m] : m \in 0..MaxRetries}

NoEntry == [data |-> NoValue, writtenAt |-> -1, ttlMs |-> 0]

\* what set(url, data, ttlMs) stores
Entry(data, ttl) == [data |-> data, writtenAt |-> now, ttlMs |-> ttl]

\* age of the entry since it was written
Age(e) == now - e.writtenAt

\* what cache.get(url) gave: nothing yet, null, the entry (with its age and
\* TTL at that time), or a rejection
Got(kind, e) ==
    [kind |-> kind, age |-> IF kind = "entry" THEN Age(e) ELSE 0,
     ttlMs |-> IF kind = "entry" THEN e.ttlMs ELSE 0]
NotAsked == Got("none", NoEntry)

\* errors of the cache object
CacheErr(op) == Err("cache", 0, EmptyBody, op)

\* time passes between calls
Tick ==
    /\ cpc = "idle"
    /\ fpc = "idle"
    /\ rpc = "idle"
    /\ now < MaxClock
    /\ now' = now + 1
    /\ UNCHANGED <<yvars, fvars, regvars, opvars, cbvars, abortvars, cache, entry, cttl, cpc, cgot,
                   cresult, mlvars,
                   purevars>>

\* cachedFetchJson(url, null, ttlMs, backoff): lines 180-186 with no cache
CachedCallNoCache(ttl, backoff) ==
    /\ cpc = "idle"
    /\ fpc = "idle"
    /\ rpc = "idle"
    /\ cache' = "null"
    /\ cttl' = ttl
    /\ cgot' = NotAsked
    /\ cpc' = "fetching"
    /\ cresult' = NoResult
    /\ EnterFetch(backoff, "none")
    /\ UNCHANGED <<yvars, regvars, opvars, cbvars, abortvars, entry, now, mlvars,
                   purevars>>

\* cachedFetchJson(url, cache, ttlMs, backoff): cache.get(url) returns the
\* entry and line 182 returns its data
CacheHit(c, ttl) ==
    /\ cpc = "idle"
    /\ fpc = "idle"
    /\ rpc = "idle"
    /\ entry # NoEntry
    /\ c = "pruning" => Age(entry) <= entry.ttlMs
    /\ cache' = c
    /\ cttl' = ttl
    /\ cgot' = Got("entry", entry)
    /\ cpc' = "returned"
    /\ cresult' = Returned(entry.data)
    /\ UNCHANGED <<yvars, fvars, regvars, opvars, cbvars, abortvars, entry, now, mlvars,
                   purevars>>

\* cache.get(url) returns null: the call goes on to the network fetch
CacheMiss(c, ttl, backoff) ==
    /\ cpc = "idle"
    /\ fpc = "idle"
    /\ rpc = "idle"
    /\ \/ entry = NoEntry
       \/ c = "pruning" /\ Age(entry) > entry.ttlMs
    /\ cache' = c
    /\ cttl' = ttl
    /\ cgot' = Got("null", NoEntry)
    /\ cpc' = "fetching"
    /\ cresult' = NoResult
    /\ EnterFetch(backoff, "none")
    /\ UNCHANGED <<yvars, regvars, opvars, cbvars, abortvars, entry, now, mlvars,
                   purevars>>

\* cache.get(url) rejects: await throws out of cachedFetchJson (line 181)
CacheGetFails(c, ttl) ==
    /\ cpc = "idle"
    /\ fpc = "idle"
    /\ rpc = "idle"
    /\ cache' = c
    /\ cttl' = ttl
    /\ cgot' = Got("rejected", NoEntry)
    /\ cpc' = "raised"
    /\ cresult' = Raised(CacheErr("get"))
    /\ UNCHANGED <<yvars, fvars, regvars, opvars, cbvars, abortvars, entry, now, mlvars,
                   purevars>>

\* line 186: fetchJsonWithBackoff raised, the error leaves cachedFetchJson
CachedFetchRaised ==
    /\ cpc = "fetching"
    /\ fpc = "raised"
    /\ cpc' = "raised"
    /\ cresult' = fresult
    /\ UNCHANGED <<yvars, fvars, regvars, opvars, cbvars, abortvars, cache, entry, now, cttl, cgot, mlvars,
                   purevars>>

\* lines 189-193 with no cache: the fetched data is returned
CachedReturnsNoCache ==
    /\ cpc = "fetching"
    /\ fpc = "returned"
    /\ cache = "null"
    /\ cpc' = "returned"
    /\ cresult' = fresult
    /\ UNCHANGED <<yvars, fvars, regvars, opvars, cbvars, abortvars, cache, entry, now, cttl, cgot, mlvars,
                   purevars>>

\* lines 189-193: cache.set(url, data, ttlMs) stores the data, which is
\* returned
CacheStore ==
    /\ cpc = "fetching"
    /\ fpc = "returned"
    /\ cache # "null"
    /\ entry' = Entry(fresult.value, cttl)
    /\ cpc' = "returned"
    /\ cresult' = Returned(fresult.value)
    /\ UNCHANGED <<yvars, fvars, regvars, opvars, cbvars, abortvars, cache, now, cttl, cgot, mlvars,
                   purevars>>

\* cache.set(url, data, ttlMs) rejects: await throws out of cachedFetchJson
\* (line 190)
CacheSetFails ==
    /\ cpc = "fetching"
    /\ fpc = "returned"
    /\ cache # "null"
    /\ cpc' = "raised"
    /\ cresult' = Raised(CacheErr("set"))
    /\ UNCHANGED <<yvars, fvars, regvars, opvars, cbvars, abortvars, cache, entry, now, cttl, cgot, mlvars,
                   purevars>>

\* the caller has its result; the frames of the call are gone
CachedDone ==
    /\ cpc \in {"returned", "raised"}
    /\ cpc' = "idle"
    /\ cache' = "null"
    /\ cttl' = 1
    /\ cgot' = NotAsked
    /\ cresult' = NoResult
    /\ LeaveFetch
    /\ UNCHANGED <<yvars, regvars, opvars, cbvars, abortvars, entry, now, mlvars,
                   purevars>>

\* ------------------------------------------------------------------------
\* sleep(ms) and the user's abort
\* ------------------------------------------------------------------------
\* the call is suspended in await sleep(d): the timer of its most recent
\* sleep has not fired
Waiting == fpc = "running" /\ nsleeps > nfired

\* what the call was doing at the abort
AbortPoint(inWait) ==
    [inWait |-> inWait, requests |-> requests, nsleeps |-> nsleeps]
NotAborted == [inWait |-> FALSE, requests |-> -1, nsleeps |-> -1]

\* a call whose waits are followed: fetchJsonWithBackoff(url, backoff)
AbortableCall(backoff) ==
    /\ fpc = "idle"
    /\ rpc = "idle"
    /\ cpc = "idle"
    /\ EnterFetch(backoff, "none")
    /\ nfired' = 0
    /\ waited' = 0
    /\ aborted' = FALSE
    /\ abortedAt' = NotAborted
    /\ UNCHANGED <<yvars, regvars, opvars, cbvars, cachevars, mlvars,
                   purevars>>

\* time passes while the call is suspended in sleep(d): half of the delay,
\* then all of it
TimePasses ==
    /\ Waiting
    /\ waited < lastSleep
    /\ waited' = IF waited = 0 THEN lastSleep \div 2 ELSE lastSleep
    /\ UNCHANGED <<yvars, fvars, regvars, opvars, cbvars, cachevars, nfired, aborted,
                   abortedAt, mlvars,
                   purevars>>

\* setTimeout(res, ms): the timer fires once ms have passed; nothing else
\* resolves the promise of sleep(ms)
TimerFires ==
    /\ Waiting
    /\ waited = lastSleep
    /\ nfired' = nsleeps
    /\ waited' = 0
    /\ UNCHANGED <<yvars, fvars, regvars, opvars, cbvars, cachevars, aborted, abortedAt, mlvars,
                   purevars>>

\* the user aborts (SIGINT: controller.abort()); neither sleep nor
\* fetchJsonWithBackoff holds the signal, so nothing of the call changes
Abort ==
    /\ fpc = "running"
    /\ ~aborted
    /\ aborted' = TRUE
    /\ abortedAt' = AbortPoint(Waiting /\ waited < lastSleep)
    /\ UNCHANGED <<yvars, fvars, regvars, opvars, cbvars, cachevars, nfired, waited, mlvars,
                   purevars>>

\* the caller has the result of the call
AbortableDone ==
    /\ fpc \in {"returned", "raised"}
    /\ LeaveFetch
    /\ nfired' = 0
    /\ waited' = 0
    /\ aborted' = FALSE
    /\ abortedAt' = NotAborted
    /\ UNCHANGED <<yvars, regvars, opvars, cbvars, cachevars, mlvars,
                   purevars>>

\* ------------------------------------------------------------------------
\* mapLimit
\* ------------------------------------------------------------------------
\* positions are counted from 1 here: position k is the source's idx = k - 1
ItemValues == {"AAPL", "MSFT"}
ItemLists == UNION {[1..n -> ItemValues] : n \in 0..MaxItems}
Limits == 1..MaxLimit

\* an empty slot of new Array(items.length)
EmptySlot == [item |-> "<empty>", idx |-> -1]

\* the value fn(items[idx], idx) fulfils with
FnValue(its, k) == [item |-> its[k], idx |-> k - 1]

\* the error fn(items[idx], idx) rejects with
FnErr(k) == Err("fn", 0, EmptyBody, ToString(k - 1))

\* a promise: pending, resolved with a value or rejected with an error
Promise(state, value, err) == [state |-> state, value |-> value, err |-> err]
NoPromise == Promise("none", <<>>, NoErr)
PendingPromise == Promise("pending", <<>>, NoErr)

\* resolve(value) / reject(err): no effect on a promise already settled
resolve(prom, value) ==
    IF prom.state = "pending" THEN Promise("resolved", value, NoErr) ELSE prom
\* reject taking effect on a promise already settled
rejectAgain(prom, err) == Promise("rejected", <<>>, err)
reject(prom, err) ==
    IF prom.state = "pending" THEN Promise("rejected", <<>>, err) ELSE prom

\* the loop condition with <= in place of <: one invocation too many
StartCountOneMore(its, lim, i0, a0) == Max(0, Min(lim + 1 - a0, Len(its) - i0))

\* the number of iterations of while (active < limit && i < items.length)
StartCount(its, lim, i0, a0) == Max(0, Min(lim - a0, Len(its) - i0))

\* next(), run with i = i0, active = a0 and the invocations invs, after the
\* step has set results and left the promise as prom
next(its, lim, i0, a0, invs, st, prom) ==
    IF i0 >= Len(its) /\ a0 = 0
    THEN /\ mpromise' = resolve(prom, results')
         /\ mi' = i0
         /\ active' = a0
         /\ inv' = invs
         /\ started' = st
    ELSE LET n == StartCount(its, lim, i0, a0)
         IN /\ mpromise' = prom
            /\ mi' = i0 + n
            /\ active' = a0 + n
            /\ inv' = [k \in DOMAIN invs |->
                          IF k \in (i0 + 1)..(i0 + n) THEN "pending" ELSE invs[k]]
            /\ started' = st \o [k \in 1..n |-> i0 + k]

\* mapLimit(items, limit, fn): the executor of the promise runs next()
MapLimitCall(its, lim) ==
    /\ mpromise = NoPromise
    /\ fpc = "idle"
    /\ rpc = "idle"
    /\ cpc = "idle"
    /\ items' = its
    /\ limit' = lim
    /\ results' = [k \in 1..Len(its) |-> EmptySlot]
    /\ queue' = <<>>
    /\ rejections' = <<>>
    /\ next(its, lim, 0, 0, [k \in 1..Len(its) |-> "unstarted"], <<>>,
            PendingPromise)
    /\ UNCHANGED <<yvars, fvars, regvars, opvars, cbvars, cachevars, abortvars,
                   purevars>>

\* the promise of fn(items[k], k) fulfils
FnFulfils(k) ==
    /\ k \in DOMAIN inv
    /\ inv[k] = "pending"
    /\ inv' = [inv EXCEPT ![k] = "fulfilled"]
    /\ queue' = Append(queue, k)
    /\ UNCHANGED <<yvars, fvars, regvars, opvars, cbvars, cachevars, abortvars, items,
                   limit, mi, active, results, started, mpromise, rejections,
                   purevars>>

\* the promise of fn(items[k], k) rejects
FnRejects(k) ==
    /\ k \in DOMAIN inv
    /\ inv[k] = "pending"
    /\ inv' = [inv EXCEPT ![k] = "rejected"]
    /\ queue' = Append(queue, k)
    /\ rejections' = Append(rejections, k)
    /\ UNCHANGED <<yvars, fvars, regvars, opvars, cbvars, cachevars, abortvars, items,
                   limit, mi, active, results, started, mpromise,
                   purevars>>

\* the callback of then storing the value at the end of results instead of
\* at its index
StoreInCompletionOrder(res, its, k) ==
    LET n == Cardinality({j \in DOMAIN res : res[j] # EmptySlot})
    IN [res EXCEPT ![n + 1] = FnValue(its, k)]

\* .then((val) => (results[idx] = val))
Store(res, its, k) == [res EXCEPT ![k] = FnValue(its, k)]

\* the callback of then runs for a fulfilled invocation
ThenStores(k) ==
    /\ k \in DOMAIN inv
    /\ inv[k] = "fulfilled"
    /\ Head(queue) = k
    /\ results' = Store(results, items, k)
    /\ inv' = [inv EXCEPT ![k] = "handled"]
    /\ queue' = Append(Tail(queue), k)
    /\ UNCHANGED <<yvars, fvars, regvars, opvars, cbvars, cachevars, abortvars, items,
                   limit, mi, active, started, mpromise, rejections,
                   purevars>>

\* .catch(reject) runs for a rejected invocation
CatchRejects(k) ==
    /\ k \in DOMAIN inv
    /\ inv[k] = "rejected"
    /\ Head(queue) = k
    /\ mpromise' = reject(mpromise, FnErr(k))
    /\ inv' = [inv EXCEPT ![k] = "handled"]
    /\ queue' = Append(Tail(queue), k)
    /\ UNCHANGED <<yvars, fvars, regvars, opvars, cbvars, cachevars, abortvars, items,
                   limit, mi, active, results, started, rejections,
                   purevars>>

\* .finally(() => { active--; next(); })
Finally(k) ==
    /\ k \in DOMAIN inv
    /\ inv[k] = "handled"
    /\ Head(queue) = k
    /\ results' = results
    /\ queue' = Tail(queue)
    /\ next(items, limit, mi, active - 1, [inv EXCEPT ![k] = "done"], started,
            mpromise)
    /\ UNCHANGED <<yvars, fvars, regvars, opvars, cbvars, cachevars, abortvars, items,
                   limit, rejections,
                   purevars>>

\* the promise has settled and every invocation has run to its end: the frame
\* of the call is gone
MapLimitDone ==
    /\ mpromise.state \in {"resolved", "rejected"}
    /\ \A k \in DOMAIN inv : inv[k] = "done"
    /\ items' = <<>>
    /\ limit' = 1
    /\ mi' = 0
    /\ active' = 0
    /\ results' = <<>>
    /\ inv' = <<>>
    /\ started' = <<>>
    /\ mpromise' = NoPromise
    /\ queue' = <<>>
    /\ rejections' = <<>>
    /\ UNCHANGED <<yvars, fvars, regvars, opvars, cbvars, cachevars, abortvars,
                   purevars>>

\* ------------------------------------------------------------------------
\* Calls of synchronous functions
\* ------------------------------------------------------------------------
NoCall == [fn |-> "none"]
NoFrame == [pc |-> "none"]
NotCalled == [returned |-> FALSE]
Ret(v) == [returned |-> TRUE, value |-> v]

\* the value null
Null == "null"

\* ------------------------------------------------------------------------
\* calculateZones and determineSignal
\* ------------------------------------------------------------------------
\* calculateZones(high52Week, buyPct, sellPct)
calculateZones(high52Week, buyPct, sellPct) ==
    [buyZoneLow |-> RMul(high52Week, RSub(Whole(1), RDiv(buyPct, Whole(100)))),
     buyZoneHigh |-> high52Week,
     sellThreshold |-> RMul(high52Week, RSub(Whole(1), RDiv(sellPct, Whole(100))))]

\* determineSignal testing the buy zone before the sell threshold
determineSignalBuyFirst(price, high52Week, buyPct, sellPct) ==
    IF ~isFinite(price) \/ ~isFinite(high52Week) THEN Null
    ELSE IF RLe(high52Week, Zero) THEN Null
    ELSE LET zones == calculateZones(high52Week, buyPct, sellPct)
         IN IF RLe(zones.buyZoneLow, price) /\ RLe(price, zones.buyZoneHigh)
            THEN "BUY"
            ELSE IF RLe(price, zones.sellThreshold) THEN "SELL"
            ELSE "HOLD"

\* determineSignal(price, high52Week, buyPct, sellPct)
determineSignal(price, high52Week, buyPct, sellPct) ==
    IF ~isFinite(price) \/ ~isFinite(high52Week) THEN Null
    ELSE IF RLe(high52Week, Zero) THEN Null
    ELSE LET zones == calculateZones(high52Week, buyPct, sellPct)
         IN IF RLe(price, zones.sellThreshold) THEN "SELL"
            ELSE IF RLe(zones.buyZoneLow, price) /\ RLe(price, zones.buyZoneHigh)
            THEN "BUY"
            ELSE "HOLD"

\* the arguments the calls are made with: prices and highs in cents or
\* non-finite, percentages below the high
NonFinite == {NaN, PosInfinity, NegInfinity}
SignalPrices == NonFinite \cup {Whole(n) : n \in -1..(MaxPrice + 1)}
SignalHighs == NonFinite \cup {Whole(n) : n \in {-5, 0, MaxPrice \div 2, MaxPrice}}
SignalPcts == {Whole(0), Whole(5), Rat(15, 2), Whole(10), Whole(50), Whole(100), Whole(150)}

SignalCalls ==
    [fn : {"determineSignal"}, price : SignalPrices, high52Week : SignalHighs,
     buyPct : SignalPcts, sellPct : SignalPcts]

\* the call is made
DetermineSignal ==
    /\ call.fn = "determineSignal"
    /\ ~ret.returned
    /\ ret' = Ret(determineSignal(call.price, call.high52Week, call.buyPct,
                                  call.sellPct))
    /\ UNCHANGED <<yvars, fvars, regvars, opvars, cbvars, cachevars, abortvars, mlvars,
                   call, frame>>

\* ------------------------------------------------------------------------
\* fetchQuote of the two adapters: from the upstream payload to the Quote
\* ------------------------------------------------------------------------
\* the value undefined of a field the payload does not have
Undefined == [undefined |-> TRUE]

\* x - y and x / y (y # 0) of numbers that may be NaN or undefined
Sub(x, y) ==
    IF x = Undefined \/ y = Undefined THEN NaN
    ELSE IF isFinite(x) /\ isFinite(y) THEN RSub(x, y) ELSE NaN
Div(x, y) ==
    IF x = Undefined \/ y = Undefined THEN NaN
    ELSE IF isFinite(x) /\ isFinite(y) THEN RDiv(x, y) ELSE NaN

\* x || y for a number x
OrElse(x, y) == IF x = NaN \/ x = Zero THEN y ELSE x

\* the texts of the fields of Alpha Vantage's "Global Quote"
NumeralTexts == {"0", "0.5", "-0.5", "1", "9", "9.5", "10"}
FieldTexts == {Absent, "", "N/A"} \cup NumeralTexts

\* Number(text): the number a numeral denotes, 0 for the empty text, NaN for
\* undefined and for a text that is no numeral
Number(text) ==
    CASE text = "0" -> Zero
      [] text = "0.5" -> Rat(1, 2)
      [] text = "-0.5" -> Rat(-1, 2)
      [] text = "1" -> Whole(1)
      [] text = "9" -> Whole(9)
      [] text = "9.5" -> Rat(19, 2)
      [] text = "10" -> Whole(10)
      [] text = "" -> Zero
      [] OTHER -> NaN

\* the Quote fields the claims are about
Quote(price, change, changePercent, previousClose, source) ==
    [price |-> price, change |-> change, changePercent |-> changePercent,
     previousClose |-> previousClose, source |-> source]

\* throw new Error(`No quote data for ${symbol}`)
ThrewNoData == [threw |-> "No quote data"]

\* AlphaVantageProvider.fetchQuote, lines 70-90, for q = data["Global Quote"]
AlphaVantageQuote(q) ==
    IF q.price \in {Absent, ""} THEN ThrewNoData
    ELSE LET price == Number(q.price)
             change == OrElse(Number(q.change), Zero)
             previousClose == OrElse(Number(q.previousClose), Sub(price, change))
             changePercent == IF previousClose # Zero
                              THEN Div(change, previousClose) ELSE Zero
         IN Quote(price, change, changePercent, previousClose, "alpha_vantage")

\* FinnhubProvider.fetchQuote, lines 79-93
FinnhubQuote(data) ==
    IF data.c = Zero THEN ThrewNoData
    ELSE Quote(data.c, data.d, Div(data.dp, Whole(100)), data.pc, "finnhub")

\* the payloads: every field present or not, consistent or not
AlphaVantagePayloads ==
    [price : {"10", "9.5", "0", "N/A", ""}, change : FieldTexts,
     previousClose : FieldTexts]
FinnhubPayloads ==
    [c : {Undefined, Zero, Whole(10), Whole(11)},
     d : {Undefined, Zero, Rat(1, 2), Whole(1)},
     dp : {Undefined, Zero, Whole(5), Rat(52632, 10000), Whole(10)},
     pc : {Undefined, Zero, Rat(19, 2), Whole(10)}]

QuoteCalls ==
    [fn : {"fetchQuote"}, provider : {"alpha_vantage"}, payload : AlphaVantagePayloads]
    \cup [fn : {"fetchQuote"}, provider : {"finnhub"}, payload : FinnhubPayloads]

\* the adapter maps the payload it fetched
MapQuote ==
    /\ call.fn = "fetchQuote"
    /\ ~ret.returned
    /\ ret' = Ret(IF call.provider = "alpha_vantage"
                  THEN AlphaVantageQuote(call.payload)
                  ELSE FinnhubQuote(call.payload))
    /\ UNCHANGED <<yvars, fvars, regvars, opvars, cbvars, cachevars, abortvars, mlvars,
                   call, frame>>

\* ------------------------------------------------------------------------
\* The indicators: calculateRSI, calculateSMA, calculateMACD
\* ------------------------------------------------------------------------
\* null, returned where an object is expected
NullObject == [null |-> TRUE]

\* a DailyBar, of which the indicators read the close
Bar(close) == [close |-> Whole(close)]
BarLists == UNION {[1..n -> {Bar(c) : c \in 1..MaxClose}] : n \in 0..MaxBars}

\* Math.abs of a finite number
RAbs(x) == IF x.num < 0 THEN Rat(-x.num, x.den) ELSE x

\* changes.push(bars[i].close - bars[i - 1].close), lines 545-548
Changes(bars) ==
    [j \in 1..(Len(bars) - 1) |-> RSub(bars[j + 1].close, bars[j].close)]

\* the sums of the seed loop, lines 554-561, over the first n changes
RECURSIVE SeedGain(_, _)
SeedGain(changes, n) ==
    IF n = 0 THEN Zero
    ELSE IF RLt(Zero, changes[n])
         THEN RAdd(SeedGain(changes, n - 1), changes[n])
         ELSE SeedGain(changes, n - 1)
RECURSIVE SeedLoss(_, _)
SeedLoss(changes, n) ==
    IF n = 0 THEN Zero
    ELSE IF RLt(Zero, changes[n])
         THEN SeedLoss(changes, n - 1)
         ELSE RAdd(SeedLoss(changes, n - 1), RAbs(changes[n]))

\* the locals after the seed loop and lines 563-564; i counts the changes
\* consumed
Seeded(bars, period) ==
    [pc |-> "smoothing",
     changes |-> Changes(bars),
     avgGain |-> RDiv(SeedGain(Changes(bars), period), Whole(period)),
     avgLoss |-> RDiv(SeedLoss(Changes(bars), period), Whole(period)),
     i |-> period]

\* the smoothing step taking Math.abs(change) as the gain whatever its sign
WilderStepAbsGain(f, period) ==
    LET change == f.changes[f.i + 1]
        gain == RAbs(change)
        loss == IF RLt(change, Zero) THEN RAbs(change) ELSE Zero
    IN [f EXCEPT
          !.avgGain = RDiv(RAdd(RMul(f.avgGain, Whole(period - 1)), gain),
                           Whole(period)),
          !.avgLoss = RDiv(RAdd(RMul(f.avgLoss, Whole(period - 1)), loss),
                           Whole(period)),
          !.i = f.i + 1]

\* one iteration of the loop of lines 567-574
WilderStep(f, period) ==
    LET change == f.changes[f.i + 1]
        gain == IF RLt(Zero, change) THEN change ELSE Zero
        loss == IF RLt(change, Zero) THEN RAbs(change) ELSE Zero
    IN [f EXCEPT
          !.avgGain = RDiv(RAdd(RMul(f.avgGain, Whole(period - 1)), gain),
                           Whole(period)),
          !.avgLoss = RDiv(RAdd(RMul(f.avgLoss, Whole(period - 1)), loss),
                           Whole(period)),
          !.i = f.i + 1]

RSI_OVERBOUGHT == 70
RSI_OVERSOLD == 30

\* lines 576-599: the RSIResult for the averages reached
RSIResult(f, period) ==
    LET rsi == IF f.avgLoss = Zero THEN Whole(100)
               ELSE RSub(Whole(100),
                         RDiv(Whole(100), RAdd(Whole(1), RDiv(f.avgGain, f.avgLoss))))
        interpretation == IF RLe(rsi, Whole(RSI_OVERSOLD)) THEN "oversold"
                          ELSE IF RLe(Whole(RSI_OVERBOUGHT), rsi) THEN "overbought"
                          ELSE "neutral"
    IN [value |-> Round2(rsi), period |-> period, interpretation |-> interpretation]

\* calculateRSI(bars, period) is entered: lines 540-564
RSIEnter ==
    /\ call.fn = "calculateRSI"
    /\ frame = NoFrame
    /\ ~ret.returned
    /\ IF Len(call.bars) < call.period + 1
       THEN /\ ret' = Ret(NullObject)
            /\ frame' = frame
       ELSE /\ frame' = Seeded(call.bars, call.period)
            /\ ret' = ret
    /\ UNCHANGED <<yvars, fvars, regvars, opvars, cbvars, cachevars, abortvars, mlvars,
                   call>>

\* one iteration of the smoothing loop
RSISmooth ==
    /\ call.fn = "calculateRSI"
    /\ frame.pc = "smoothing"
    /\ frame.i < Len(frame.changes)
    /\ frame' = WilderStep(frame, call.period)
    /\ UNCHANGED <<yvars, fvars, regvars, opvars, cbvars, cachevars, abortvars, mlvars,
                   call, ret>>

\* the loop has ended: the result is returned
RSIReturn ==
    /\ call.fn = "calculateRSI"
    /\ frame.pc = "smoothing"
    /\ frame.i >= Len(frame.changes)
    /\ frame' = [frame EXCEPT !.pc = "done"]
    /\ ret' = Ret(RSIResult(frame, call.period))
    /\ UNCHANGED <<yvars, fvars, regvars, opvars, cbvars, cachevars, abortvars, mlvars,
                   call>>

\* the sum of the closes of bars[from..Len(bars)]
RECURSIVE SumCloses(_, _)
SumCloses(bars, from) ==
    IF from > Len(bars) THEN Zero
    ELSE RAdd(bars[from].close, SumCloses(bars, from + 1))

\* calculateSMA with <= in the guard: period bars are not enough
calculateSMAStrictGuard(bars, period) ==
    IF Len(bars) <= period THEN NullObject
    ELSE LET value == RDiv(SumCloses(bars, Len(bars) - period + 1), Whole(period))
             currentPrice == bars[Len(bars)].close
         IN [value |-> Round2(value), period |-> period,
             priceRelation |-> IF RLt(value, currentPrice) THEN "above"
                               ELSE IF RLt(currentPrice, value) THEN "below"
                               ELSE "at"]

\* calculateSMA(bars, period), sma.ts lines 17-47
calculateSMA(bars, period) ==
    IF Len(bars) < period THEN NullObject
    ELSE LET value == RDiv(SumCloses(bars, Len(bars) - period + 1), Whole(period))
             currentPrice == bars[Len(bars)].close
         IN [value |-> Round2(value), period |-> period,
             priceRelation |-> IF RLt(value, currentPrice) THEN "above"
                               ELSE IF RLt(currentPrice, value) THEN "below"
                               ELSE "at"]

\* the sum of values[1..n]
RECURSIVE SumValues(_, _)
SumValues(values, n) ==
    IF n = 0 THEN Zero ELSE RAdd(SumValues(values, n - 1), values[n])

\* the first n values of the EMA of period over values: the SMA of the first
\* period values, then (values[i] - last) * multiplier + last
RECURSIVE EmaPrefix(_, _, _)
EmaPrefix(values, period, n) ==
    IF n = 1 THEN <<RDiv(SumValues(values, period), Whole(period))>>
    ELSE LET ema == EmaPrefix(values, period, n - 1)
             last == ema[n - 1]
             multiplier == Rat(2, period + 1)
         IN Append(ema, RAdd(RMul(RSub(values[period + n - 1], last), multiplier),
                             last))

\* calculateEMA(values, period), macd.ts lines 16-40
calculateEMA(values, period) ==
    IF Len(values) < period THEN <<>>
    ELSE EmaPrefix(values, period, Len(values) - period + 1)

\* calculateMACD(bars, fastPeriod, slowPeriod, signalPeriod), macd.ts lines
\* 54-117, for fastPeriod < slowPeriod
calculateMACD(bars, fastPeriod, slowPeriod, signalPeriod) ==
    IF Len(bars) < slowPeriod + signalPeriod - 1 THEN NullObject
    ELSE LET prices == [j \in 1..Len(bars) |-> bars[j].close]
             fastEMA == calculateEMA(prices, fastPeriod)
             slowEMA == calculateEMA(prices, slowPeriod)
             offset == slowPeriod - fastPeriod
             alignedFastEMA == SubSeq(fastEMA, offset + 1, Len(fastEMA))
             macdLine == [j \in 1..Len(slowEMA) |->
                             RSub(alignedFastEMA[j], slowEMA[j])]
             signalLine == calculateEMA(macdLine, signalPeriod)
         IN IF Len(signalLine) = 0 THEN NullObject
            ELSE LET currentMACD == macdLine[Len(macdLine)]
                     currentSignal == signalLine[Len(signalLine)]
                     currentHistogram == RSub(currentMACD, currentSignal)
                     prevHistogram ==
                         IF Len(macdLine) > 1 /\ Len(signalLine) > 1
                         THEN RSub(macdLine[Len(macdLine) - 1],
                                   signalLine[Len(signalLine) - 1])
                         ELSE Zero
                     trend ==
                         IF RLe(prevHistogram, Zero) /\ RLt(Zero, currentHistogram)
                         THEN "bullish"
                         ELSE IF RLe(Zero, prevHistogram) /\ RLt(currentHistogram, Zero)
                         THEN "bearish"
                         ELSE "neutral"
                     roundedMACD == Round2(currentMACD)
                     roundedSignal == Round2(currentSignal)
                 IN [macdLine |-> roundedMACD, signalLine |-> roundedSignal,
                     histogram |-> Round2(RSub(roundedMACD, roundedSignal)),
                     trend |-> trend]

\* the (fast, slow, signal) periods given to calculateMACD
MacdPeriods ==
    {p \in [fast : 1..MaxPeriod, slow : 1..MaxPeriod, signal : 1..MaxPeriod] :
        p.fast < p.slow}

IndicatorCalls ==
    [fn : {"calculateRSI", "calculateSMA"}, bars : BarLists, period : 1..MaxPeriod]
    \cup [fn : {"calculateMACD"}, bars : BarLists, periods : MacdPeriods]

\* calculateSMA is called
SMACall ==
    /\ call.fn = "calculateSMA"
    /\ ~ret.returned
    /\ ret' = Ret(calculateSMA(call.bars, call.period))
    /\ UNCHANGED <<yvars, fvars, regvars, opvars, cbvars, cachevars, abortvars, mlvars,
                   call, frame>>

\* calculateMACD is called
MACDCall ==
    /\ call.fn = "calculateMACD"
    /\ ~ret.returned
    /\ ret' = Ret(calculateMACD(call.bars, call.periods.fast, call.periods.slow,
                                call.periods.signal))
    /\ UNCHANGED <<yvars, fvars, regvars, opvars, cbvars, cachevars, abortvars, mlvars,
                   call, frame>>

\* ------------------------------------------------------------------------
\* calculateRSIHistory
\* ------------------------------------------------------------------------
\* the averages of calculateRSI and calculateRSIHistory after the seed and k
\* iterations of the smoothing loop
RECURSIVE Smoothed(_, _, _)
Smoothed(bars, period, k) ==
    IF k = 0 THEN Seeded(bars, period)
    ELSE WilderStep(Smoothed(bars, period, k - 1), period)

\* calculateRSI(bars, period) as one function
calculateRSI(bars, period) ==
    IF Len(bars) < period + 1 THEN NullObject
    ELSE RSIResult(Smoothed(bars, period, Len(bars) - 1 - period), period)

\* part_006 lines 642-643 and 654-655: the value pushed for the averages
HistoryValue(f) ==
    LET rs == IF f.avgLoss = Zero THEN Whole(100) ELSE RDiv(f.avgGain, f.avgLoss)
    IN RSub(Whole(100), RDiv(Whole(100), RAdd(Whole(1), rs)))

\* calculateRSIHistory(bars, period), part_006 lines 609-659
calculateRSIHistory(bars, period) ==
    IF Len(bars) < period + 1 THEN <<>>
    ELSE [k \in 1..(Len(bars) - period) |->
             Round2(HistoryValue(Smoothed(bars, period, k - 1)))]

RSIHistoryCalls ==
    [fn : {"calculateRSIHistory"}, bars : BarLists, period : 1..MaxPeriod]

\* calculateRSIHistory is called
RSIHistoryCall ==
    /\ call.fn = "calculateRSIHistory"
    /\ ~ret.returned
    /\ ret' = Ret(calculateRSIHistory(call.bars, call.period))
    /\ UNCHANGED <<yvars, fvars, regvars, opvars, cbvars, cachevars, abortvars, mlvars,
                   call, frame>>

\* ------------------------------------------------------------------------
\* detectSMACross
\* ------------------------------------------------------------------------
\* bars whose closes are whole cents
CentBarLists ==
    UNION {[1..n -> {[close |-> Rat(c, 100)] : c \in 1..MaxClose}] : n \in 0..MaxBars}

\* detectSMACross(bars, shortPeriod, longPeriod), sma.ts lines 81-117
detectSMACross(bars, shortPeriod, longPeriod) ==
    IF Len(bars) < longPeriod + 1 THEN Null
    ELSE LET currentShort == calculateSMA(bars, shortPeriod)
             currentLong == calculateSMA(bars, longPeriod)
             prevBars == SubSeq(bars, 1, Len(bars) - 1)
             prevShort == calculateSMA(prevBars, shortPeriod)
             prevLong == calculateSMA(prevBars, longPeriod)
         IN IF NullObject \in {currentShort, currentLong, prevShort, prevLong}
            THEN Null
            ELSE LET currentDiff == RSub(currentShort.value, currentLong.value)
                     prevDiff == RSub(prevShort.value, prevLong.value)
                 IN IF RLe(prevDiff, Zero) /\ RLt(Zero, currentDiff) THEN "golden"
                    ELSE IF RLe(Zero, prevDiff) /\ RLt(currentDiff, Zero) THEN "death"
                    ELSE "none"

SMACrossCalls ==
    {c \in [fn : {"detectSMACross"}, bars : CentBarLists, shortPeriod : 1..MaxPeriod,
            longPeriod : 1..MaxPeriod] : c.shortPeriod < c.longPeriod}

\* detectSMACross is called
SMACrossCall ==
    /\ call.fn = "detectSMACross"
    /\ ~ret.returned
    /\ ret' = Ret(detectSMACross(call.bars, call.shortPeriod, call.longPeriod))
    /\ UNCHANGED <<yvars, fvars, regvars, opvars, cbvars, cachevars, abortvars, mlvars,
                   call, frame>>

\* ------------------------------------------------------------------------
\* Numbers as JavaScript has them: positive binary64 values
\* ------------------------------------------------------------------------
\* A positive double is [m, e]: m the 53 bits of its significand, the most
\* significant (1) first, and its value is m * 2^e.  The operations round to
\* nearest, ties to even.
Zeros(k) == [j \in 1..k |-> 0]

\* the binary digits of the natural n, most significant first
RECURSIVE BitsOf(_)
BitsOf(n) == IF n = 0 THEN <<>> ELSE Append(BitsOf(n \div 2), n % 2)

\* the natural the digits stand for
RECURSIVE NatOf(_)
NatOf(bits) ==
    IF bits = <<>> THEN 0
    ELSE 2 * NatOf(SubSeq(bits, 1, Len(bits) - 1)) + bits[Len(bits)]

\* bits without its leading zeros
RECURSIVE Strip(_)
Strip(bits) ==
    IF bits = <<>> \/ bits[1] = 1 THEN bits ELSE Strip(Tail(bits))

\* digits lo..hi of a + b + carry and the carry out of them, for a and b of
\* the same length
RECURSIVE AddRange(_, _, _, _, _)
AddRange(a, b, lo, hi, carry) ==
    IF lo > hi THEN [s |-> <<>>, c |-> carry]
    ELSE IF lo = hi
    THEN [s |-> <<(a[lo] + b[lo] + carry) % 2>>, c |-> (a[lo] + b[lo] + carry) \div 2]
    ELSE LET mid == (lo + hi) \div 2
             low == AddRange(a, b, mid + 1, hi, carry)
             high == IF low.c = 0 THEN AddRange(a, b, lo, mid, 0)
                     ELSE AddRange(a, b, lo, mid, 1)
         IN [s |-> high.s \o low.s, c |-> high.c]

AddBits(a, b) ==
    LET len == Max(Len(a), Len(b))
        sum == AddRange(Zeros(len - Len(a)) \o a, Zeros(len - Len(b)) \o b, 1, len, 0)
    IN (IF sum.c = 1 THEN <<1>> ELSE <<>>) \o sum.s

\* digits lo..hi of bits * n + carry and the carry out of them
RECURSIVE MulRange(_, _, _, _, _)
MulRange(bits, n, lo, hi, carry) ==
    IF lo > hi THEN [s |-> <<>>, c |-> carry]
    ELSE IF lo = hi
    THEN [s |-> <<(bits[lo] * n + carry) % 2>>, c |-> (bits[lo] * n + carry) \div 2]
    ELSE LET mid == (lo + hi) \div 2
             low == MulRange(bits, n, mid + 1, hi, carry)
             high == IF low.c = 0 THEN MulRange(bits, n, lo, mid, 0)
                     ELSE MulRange(bits, n, lo, mid, low.c)
         IN [s |-> high.s \o low.s, c |-> high.c]

MulBits(bits, n) ==
    LET product == MulRange(bits, n, 1, Len(bits), 0)
    IN BitsOf(product.c) \o product.s

\* quotient digits and remainder of (r * 2^(hi-lo+1) + bits[lo..hi]) / n
RECURSIVE DivRange(_, _, _, _, _)
DivRange(bits, n, lo, hi, r) ==
    IF lo > hi THEN [q |-> <<>>, r |-> r]
    ELSE IF lo = hi
    THEN [q |-> <<(2 * r + bits[lo]) \div n>>, r |-> (2 * r + bits[lo]) % n]
    ELSE LET mid == (lo + hi) \div 2
             high == DivRange(bits, n, lo, mid, r)
             low == IF high.r = 0 THEN DivRange(bits, n, mid + 1, hi, 0)
                    ELSE DivRange(bits, n, mid + 1, hi, high.r)
         IN [q |-> high.q \o low.q, r |-> low.r]

\* the double nearest to bits * 2^e (+ something below the last digit when
\* sticky), bits starting with 1
RoundToDouble(bits, e, sticky) ==
    IF Len(bits) <= 53
    THEN [m |-> bits \o Zeros(53 - Len(bits)), e |-> e - (53 - Len(bits))]
    ELSE LET keep == SubSeq(bits, 1, 53)
             rest == SubSeq(bits, 54, Len(bits))
             below == sticky \/ \E j \in 2..Len(rest) : rest[j] = 1
             up == rest[1] = 1 /\ (below \/ keep[53] = 1)
             inc == AddBits(keep, <<1>>)
         IN IF ~up THEN [m |-> keep, e |-> e + Len(rest)]
            ELSE IF Len(inc) = 54
                 THEN [m |-> SubSeq(inc, 1, 53), e |-> e + Len(rest) + 1]
                 ELSE [m |-> inc, e |-> e + Len(rest)]

\* the double of a natural n >= 1
FromNat(n) == RoundToDouble(BitsOf(n), 0, FALSE)

\* x + y
FAdd(x, y) ==
    LET e == Min(x.e, y.e)
    IN RoundToDouble(Strip(AddBits(x.m \o Zeros(x.e - e), y.m \o Zeros(y.e - e))),
                     e, FALSE)

\* x * n and x / n for a natural n >= 1
FMulNat(x, n) == RoundToDouble(Strip(MulBits(x.m, n)), x.e, FALSE)
FDivNat(x, n) ==
    LET d == DivRange(x.m \o Zeros(64), n, 1, 117, 0)
    IN RoundToDouble(Strip(d.q), x.e - 64, d.r # 0)

\* x < y
FLt(x, y) ==
    \/ x.e < y.e
    \/ /\ x.e = y.e
       /\ \E j \in 1..53 : /\ x.m[j] < y.m[j]
                           /\ \A k \in 1..(j - 1) : x.m[k] = y.m[k]

\* Math.round(x) for 1/2 <= x < 2^31
MathRound(x) ==
    NatOf(SubSeq(x.m, 1, 53 + x.e)) + (IF x.e < 0 THEN x.m[53 + x.e + 1] ELSE 0)

\* the number literal of cents / 100
Hundredths(cents) == FDivNat(FromNat(cents), 100)

\* the bars of n days at the same close
ConstantBars(cents, n) == [j \in 1..n |-> [close |-> Hundredths(cents)]]

ConstantSMACalls ==
    {c \in [fn : {"calculateSMA64"}, cents : 1..MaxCents, n : 1..MaxBars,
            period : 1..MaxPeriod] : c.n >= c.period}

\* calculateSMA(bars, period) in binary64 is called with a constant series of
\* period bars or more: sma.ts lines 20-26, and the first callback of reduce
\* (0 + close is close)
SMA64Enter ==
    /\ call.fn = "calculateSMA64"
    /\ ~ret.returned
    /\ frame = NoFrame
    /\ LET bars == ConstantBars(call.cents, call.n)
       IN frame' = [pc |-> "reduce", bars |-> bars, period |-> call.period, j |-> 1,
                    acc |-> bars[Len(bars) - call.period + 1].close,
                    value |-> bars[1].close]
    /\ UNCHANGED <<yvars, fvars, regvars, opvars, cbvars, cachevars, abortvars, mlvars,
                   call, ret>>

\* the next callback of reduce: line 26, acc + bar.close
SMA64Reduce ==
    /\ frame.pc = "reduce"
    /\ frame.j < frame.period
    /\ frame' = [frame EXCEPT
                    !.acc = FAdd(@, frame.bars[Len(frame.bars) - frame.period
                                               + frame.j + 1].close),
                    !.j = @ + 1]
    /\ UNCHANGED <<yvars, fvars, regvars, opvars, cbvars, cachevars, abortvars, mlvars,
                   call, ret>>

\* line 27: value = sum / period
SMA64Mean ==
    /\ frame.pc = "reduce"
    /\ frame.j = frame.period
    /\ frame' = [frame EXCEPT !.pc = "mean", !.value = FDivNat(frame.acc, frame.period)]
    /\ UNCHANGED <<yvars, fvars, regvars, opvars, cbvars, cachevars, abortvars, mlvars,
                   call, ret>>

\* lines 29-46: the price relation and the result
SMA64Return ==
    /\ frame.pc = "mean"
    /\ LET value == frame.value
           currentPrice == frame.bars[Len(frame.bars)].close
       IN ret' = Ret([value |-> FDivNat(FromNat(MathRound(FMulNat(value, 100))), 100),
                      period |-> frame.period,
                      priceRelation |-> IF FLt(value, currentPrice) THEN "above"
                                        ELSE IF FLt(currentPrice, value) THEN "below"
                                        ELSE "at"])
    /\ frame' = NoFrame
    /\ UNCHANGED <<yvars, fvars, regvars, opvars, cbvars, cachevars, abortvars, mlvars,
                   call>>

\* ------------------------------------------------------------------------
\* computeMetrics
\* ------------------------------------------------------------------------
TRADING_DAYS_WINDOW == 270
VOLUME_AVG_DAYS == 30

\* x * m for a finite m and an x that may be NaN or infinite
Times(x, m) ==
    IF isFinite(x) THEN RMul(x, m)
    ELSE IF x = NaN \/ m = Zero THEN NaN
    ELSE IF RLt(Zero, m) THEN x
    ELSE IF x = PosInfinity THEN NegInfinity ELSE PosInfinity

\* the kinds of DailyBar given to computeMetrics
MetricBarKinds ==
    [plain |-> [high |-> Whole(10), close |-> Whole(10), adjustedClose |-> Whole(10),
                volume |-> Whole(100)],
     split |-> [high |-> Whole(22), close |-> Whole(20), adjustedClose |-> Whole(10),
                volume |-> Whole(300)],
     peak |-> [high |-> Whole(12), close |-> Whole(10), adjustedClose |-> Whole(10),
               volume |-> Whole(500)],
     nan |-> [high |-> NaN, close |-> Whole(10), adjustedClose |-> Whole(10),
              volume |-> NaN],
     infinite |-> [high |-> PosInfinity, close |-> Whole(10),
                   adjustedClose |-> Whole(10), volume |-> PosInfinity],
     zeroClose |-> [high |-> Whole(8), close |-> Zero, adjustedClose |-> Whole(5),
                    volume |-> Zero],
     nanAdjusted |-> [high |-> Whole(30), close |-> Whole(10), adjustedClose |-> NaN,
                      volume |-> Whole(200)]]

\* the lengths of the lists and the places of the one bar that differs from
\* the others (0: none differs)
MetricLengths ==
    {0, 1, 2, VOLUME_AVG_DAYS - 1, VOLUME_AVG_DAYS, VOLUME_AVG_DAYS + 1,
     TRADING_DAYS_WINDOW - 1, TRADING_DAYS_WINDOW, TRADING_DAYS_WINDOW + 1}
MetricPlaces ==
    {0, 1, VOLUME_AVG_DAYS, VOLUME_AVG_DAYS + 1, TRADING_DAYS_WINDOW,
     TRADING_DAYS_WINDOW + 1}

MetricCalls ==
    {c \in [fn : {"computeMetrics"}, n : MetricLengths, base : {"plain", "nan"},
            at : MetricPlaces, special : DOMAIN MetricBarKinds] : c.at <= c.n}

\* bars[j] of the call (j from 1)
MetricBar(c, j) ==
    IF j = c.at THEN MetricBarKinds[c.special] ELSE MetricBarKinds[c.base]

\* lines 257-264: the split-adjusted high of a bar
AdjHigh(bar) ==
    LET multiplier ==
            IF isFinite(bar.adjustedClose) /\ isFinite(bar.close) /\ bar.close # Zero
            THEN RDiv(bar.adjustedClose, bar.close)
            ELSE Whole(1)
    IN Times(bar.high, multiplier)

\* Math.max(a, b) of a, -Infinity or finite, and a finite b
MathMax(a, b) == IF a = NegInfinity \/ RLt(a, b) THEN b ELSE a

\* the loop body counting one day too many into the volume average
MetricsBodyVolumeOffByOne(f, bar) ==
    LET adjHigh == AdjHigh(bar)
        counted == f.i <= VOLUME_AVG_DAYS /\ isFinite(bar.volume)
    IN [f EXCEPT
          !.high52Week = IF isFinite(adjHigh) THEN MathMax(f.high52Week, adjHigh)
                         ELSE f.high52Week,
          !.volSum30 = IF counted THEN RAdd(f.volSum30, bar.volume) ELSE f.volSum30,
          !.volCount = IF counted THEN f.volCount + 1 ELSE f.volCount,
          !.i = f.i + 1]

\* lines 254-277: the loop body for window[i] = bar
MetricsBody(f, bar) ==
    LET adjHigh == AdjHigh(bar)
        counted == f.i < VOLUME_AVG_DAYS /\ isFinite(bar.volume)
    IN [f EXCEPT
          !.high52Week = IF isFinite(adjHigh) THEN MathMax(f.high52Week, adjHigh)
                         ELSE f.high52Week,
          !.volSum30 = IF counted THEN RAdd(f.volSum30, bar.volume) ELSE f.volSum30,
          !.volCount = IF counted THEN f.volCount + 1 ELSE f.volCount,
          !.i = f.i + 1]

\* computeMetrics(bars) is entered: lines 248-252
MetricsEnter ==
    /\ call.fn = "computeMetrics"
    /\ frame = NoFrame
    /\ frame' = [pc |-> "loop", length |-> Min(call.n, TRADING_DAYS_WINDOW), i |-> 0,
                 high52Week |-> NegInfinity, volSum30 |-> Zero, volCount |-> 0]
    /\ UNCHANGED <<yvars, fvars, regvars, opvars, cbvars, cachevars, abortvars, mlvars,
                   call, ret>>

\* one iteration of the loop over the window
MetricsStep ==
    /\ call.fn = "computeMetrics"
    /\ frame.pc = "loop"
    /\ frame.i < frame.length
    /\ frame' = MetricsBody(frame, MetricBar(call, frame.i + 1))
    /\ UNCHANGED <<yvars, fvars, regvars, opvars, cbvars, cachevars, abortvars, mlvars,
                   call, ret>>

\* lines 279-282: the Metrics returned
MetricsReturn ==
    /\ call.fn = "computeMetrics"
    /\ frame.pc = "loop"
    /\ frame.i >= frame.length
    /\ frame' = [frame EXCEPT !.pc = "done"]
    /\ ret' = Ret([high52Week |-> IF isFinite(frame.high52Week) THEN frame.high52Week
                                  ELSE NaN,
                   avgVolume30Day |-> IF frame.volCount > 0
                                      THEN RDiv(frame.volSum30, Whole(frame.volCount))
                                      ELSE NaN])
    /\ UNCHANGED <<yvars, fvars, regvars, opvars, cbvars, cachevars, abortvars, mlvars,
                   call>>

\* ------------------------------------------------------------------------
\* Alerts: isInCooldown, updateAlert, checkAlerts
\* ------------------------------------------------------------------------
\* no lastTriggered field
NeverTriggered == -1

\* Date.now(), in ms: the clock counts half minutes
DateNow == now * 30000

Alert(id, enabled, cooldownMinutes, lastTriggered) ==
    [id |-> id, enabled |-> enabled, cooldownMinutes |-> cooldownMinutes,
     lastTriggered |-> lastTriggered]

\* the alerts files a run starts from: alerts never triggered
AlertFiles ==
    {<<Alert("a1", e, c, NeverTriggered)>> : e \in BOOLEAN, c \in 0..1}
    \cup {<<Alert("a1", TRUE, c1, NeverTriggered), Alert("a2", TRUE, c2, NeverTriggered)>> :
             c1 \in 0..1, c2 \in 0..1}

\* what contexts.get(alert.symbol) and evaluateCondition give for an alert
AlertContexts == {"missing", "met", "unmet"}

\* isInCooldown with <= in place of <
isInCooldownInclusive(alert) ==
    IF alert.lastTriggered = NeverTriggered THEN FALSE
    ELSE LET cooldownMs == alert.cooldownMinutes * 60 * 1000
         IN DateNow - alert.lastTriggered <= cooldownMs

\* isInCooldown(alert), monitor.ts lines 144-154
isInCooldown(alert) ==
    IF alert.lastTriggered = NeverTriggered THEN FALSE
    ELSE LET cooldownMs == alert.cooldownMinutes * 60 * 1000
         IN DateNow - alert.lastTriggered < cooldownMs

\* updateAlert(alertId, {lastTriggered}): the file after it, part_001 lines
\* 153-168
updateAlert(file, alertId, lastTriggered) ==
    LET found == {k \in DOMAIN file : file[k].id = alertId}
    IN IF found = {} THEN file
       ELSE LET index == CHOOSE k \in found : \A j \in found : k <= j
            IN [file EXCEPT ![index].lastTriggered = lastTriggered]

\* checkAlerts(contexts) is called: loadAlerts, lines 167-168
CheckAlertsCall ==
    /\ apc = "idle"
    /\ Len(alog) + Len(alerts) <= MaxEvaluations
    /\ apc' = "checking"
    /\ loaded' = alerts
    /\ ai' = 1
    /\ events' = <<>>
    /\ UNCHANGED <<fvars, regvars, opvars, cbvars, cachevars, abortvars, mlvars,
                   purevars, alerts, alog, loopvars, racevars>>

\* one iteration of the for-of loop, up to the await of updateAlert: lines
\* 170-190
CheckAlert(context) ==
    /\ apc = "checking"
    /\ ai <= Len(loaded)
    /\ LET alert == loaded[ai]
           skipped == ~alert.enabled \/ isInCooldown(alert) \/ context = "missing"
           triggered == ~skipped /\ context = "met"
       IN /\ IF triggered
             THEN /\ events' = Append(events, [alert |-> alert.id, triggeredAt |-> DateNow])
                  /\ apc' = "updating"
                  /\ ai' = ai
             ELSE /\ events' = events
                  /\ apc' = apc
                  /\ ai' = ai + 1
          /\ alog' = IF alert.enabled /\ context # "missing"
                     THEN Append(alog, [id |-> alert.id, at |-> DateNow,
                                        met |-> context = "met", event |-> triggered])
                     ELSE alog
    /\ UNCHANGED <<fvars, regvars, opvars, cbvars, cachevars, abortvars, mlvars,
                   purevars, alerts, loaded, loopvars, racevars>>

\* updateAlert has written the file: lines 192-197
UpdateAlertDone ==
    /\ apc = "updating"
    /\ alerts' = updateAlert(alerts, loaded[ai].id, events[Len(events)].triggeredAt)
    /\ apc' = "checking"
    /\ ai' = ai + 1
    /\ UNCHANGED <<fvars, regvars, opvars, cbvars, cachevars, abortvars, mlvars,
                   purevars, loaded, events, alog, loopvars, racevars>>

\* the loop has ended: return events, line 201
CheckAlertsReturn ==
    /\ apc = "checking"
    /\ ai > Len(loaded)
    /\ apc' = "idle"
    /\ loaded' = <<>>
    /\ ai' = 0
    /\ events' = <<>>
    /\ UNCHANGED <<fvars, regvars, opvars, cbvars, cachevars, abortvars, mlvars,
                   purevars, alerts, alog, loopvars, racevars>>

\* half a minute passes, during a run or between runs
HalfMinutePasses ==
    /\ now < MaxClock
    /\ now' = now + 1
    /\ UNCHANGED <<fvars, regvars, opvars, cbvars, cache, entry, cttl, cpc, cgot,
                   cresult, abortvars, mlvars, purevars, yvars>>

\* ------------------------------------------------------------------------
\* WatchMode and AlertMonitor: start, stop, delay
\* ------------------------------------------------------------------------
\* A start() call: pc is "update" while runUpdate / runCheck awaits, "delay"
\* while the delay is awaited, "returned" or "threw" at its end; timer is the
\* timer of its delay ("none" | "pending" | "cleared"); stopped and late
\* record that stop() ran while the call was pending and that the call began
\* a cycle after that.
Loop(pc, signal) ==
    [pc |-> pc, signal |-> signal, timer |-> "none", stopped |-> FALSE,
     late |-> FALSE]

Pending(loop) == loop.pc \in {"update", "delay"}

\* options.signal?.aborted for the call
SignalAborted(loop) == loop.signal /\ signalAborted

\* stop(): watch.ts lines 105-111, monitor.ts lines 248-254
Stopped(ls) ==
    [l \in DOMAIN ls |->
        [ls[l] EXCEPT !.stopped = @ \/ Pending(ls[l]),
                      !.timer = IF l = timeoutId /\ @ = "pending" THEN "cleared" ELSE @]]

\* WatchMode.start(symbols, fetchQuote, options): lines 70-90, up to the await
\* of the first runUpdate
WatchStart(signal) ==
    /\ instance = "WatchMode"
    /\ Len(loops) < MaxStarts
    /\ IF isRunning
       THEN /\ loops' = Append(loops, Loop("threw", signal))
            /\ isRunning' = isRunning
       ELSE /\ loops' = Append(loops, Loop("update", signal))
            /\ isRunning' = TRUE
    /\ UNCHANGED <<fvars, regvars, opvars, cbvars, cachevars, abortvars, mlvars,
                   purevars, alertvars, racevars, instance, timeoutId, signalAborted>>

\* what follows the await of runUpdate in the loop with <= 0 awaits: the
\* while test and, when it holds, the call of delay
AfterCycle(l, running) ==
    IF running
    THEN /\ loops' = [loops EXCEPT ![l].pc = "delay", ![l].timer = "pending"]
         /\ timeoutId' = l
    ELSE /\ loops' = [loops EXCEPT ![l].pc = "returned"]
         /\ timeoutId' = timeoutId

\* what follows the await of delay: the test and, when it holds, the call of
\* runUpdate / runCheck; else the while test fails and start() returns
AfterDelay(ls, l, running) ==
    IF running
    THEN [ls EXCEPT ![l].pc = "update", ![l].timer = "none",
                    ![l].late = @ \/ ls[l].stopped]
    ELSE [ls EXCEPT ![l].pc = "returned", ![l].timer = "none"]

\* runUpdate of the call has ended: lines 93-94 (and 183-200, delay)
WatchUpdateCompletes(l) ==
    /\ instance = "WatchMode"
    /\ l \in DOMAIN loops
    /\ loops[l].pc = "update"
    /\ AfterCycle(l, isRunning /\ ~SignalAborted(loops[l]))
    /\ UNCHANGED <<fvars, regvars, opvars, cbvars, cachevars, abortvars, mlvars,
                   purevars, alertvars, racevars, instance, isRunning, signalAborted>>

\* the timer of the delay of the call fires: lines 190-192 and 96-98
WatchTimerFires(l) ==
    /\ instance = "WatchMode"
    /\ l \in DOMAIN loops
    /\ loops[l].pc = "delay"
    /\ loops[l].timer = "pending"
    /\ loops' = AfterDelay(loops, l, isRunning /\ ~SignalAborted(loops[l]))
    /\ UNCHANGED <<fvars, regvars, opvars, cbvars, cachevars, abortvars, mlvars,
                   purevars, alertvars, racevars, instance, isRunning, timeoutId,
                   signalAborted>>

\* stop() is called on the instance
Stop ==
    /\ instance \in {"WatchMode", "AlertMonitor"}
    /\ loops # <<>>
    /\ isRunning' = FALSE
    /\ loops' = Stopped(loops)
    /\ timeoutId' = 0
    /\ UNCHANGED <<fvars, regvars, opvars, cbvars, cachevars, abortvars, mlvars,
                   purevars, alertvars, racevars, instance, signalAborted>>

\* controller.abort(): the listeners of the signal run in the order they were
\* added: the one of each start() (lines 84-88) calls stop(), the one of each
\* delay (lines 196-199) resolves its promise
ControllerAbort ==
    /\ instance = "WatchMode"
    /\ ~signalAborted
    /\ signalAborted' = TRUE
    /\ LET listening == \E l \in DOMAIN loops : loops[l].signal /\ loops[l].pc # "threw"
           ls == IF listening THEN Stopped(loops) ELSE loops
       IN /\ isRunning' = (isRunning /\ ~listening)
          /\ timeoutId' = IF listening THEN 0 ELSE timeoutId
          /\ loops' = [l \in DOMAIN ls |->
                          IF ls[l].signal /\ ls[l].pc = "delay"
                          THEN AfterDelay(ls, l, FALSE)[l]
                          ELSE ls[l]]
    /\ UNCHANGED <<fvars, regvars, opvars, cbvars, cachevars, abortvars, mlvars,
                   purevars, alertvars, racevars, instance>>

\* AlertMonitor.start(): monitor.ts lines 229-235
MonitorStart ==
    /\ instance = "AlertMonitor"
    /\ Len(loops) < MaxStarts
    /\ IF isRunning
       THEN /\ loops' = Append(loops, Loop("returned", FALSE))
            /\ isRunning' = isRunning
       ELSE /\ loops' = Append(loops, Loop("update", FALSE))
            /\ isRunning' = TRUE
    /\ UNCHANGED <<fvars, regvars, opvars, cbvars, cachevars, abortvars, mlvars,
                   purevars, alertvars, racevars, instance, timeoutId, signalAborted>>

\* runCheck of the call has ended: lines 237-238 (and 289-293, delay)
MonitorCheckCompletes(l) ==
    /\ instance = "AlertMonitor"
    /\ l \in DOMAIN loops
    /\ loops[l].pc = "update"
    /\ AfterCycle(l, isRunning)
    /\ UNCHANGED <<fvars, regvars, opvars, cbvars, cachevars, abortvars, mlvars,
                   purevars, alertvars, racevars, instance, isRunning, signalAborted>>

\* the timer of the delay of the call fires: lines 291 and 239-241
MonitorTimerFires(l) ==
    /\ instance = "AlertMonitor"
    /\ l \in DOMAIN loops
    /\ loops[l].pc = "delay"
    /\ loops[l].timer = "pending"
    /\ loops' = AfterDelay(loops, l, isRunning)
    /\ UNCHANGED <<fvars, regvars, opvars, cbvars, cachevars, abortvars, mlvars,
                   purevars, alertvars, racevars, instance, isRunning, timeoutId,
                   signalAborted>>

\* ------------------------------------------------------------------------
\* Concurrent cachedFetchJson calls on one cache
\* ------------------------------------------------------------------------
RacingUrls == {"u1", "u2"}

RacingResponses ==
    {NetworkFailure,
     [status |-> 200, body |-> DataBody],
     [status |-> 200, body |-> TextBody],
     [status |-> 200, body |-> LimitNoteBody],
     [status |-> 404, body |-> EmptyObject],
     [status |-> 429, body |-> EmptyBody]}

\* what the transport sent for the request of call k for url
Payload(url, k, value) == [url |-> url, by |-> k, value |-> value]

NoPayload == Payload("<none>", 0, NoValue)

\* a cachedFetchJson call: pc is "get" while cache.get is awaited, "fetch"
\* while a request of fetchJsonWithBackoff is awaited, "set" while cache.set
\* is awaited, then "returned" or "raised"
RacingCallState(url) ==
    [url |-> url, pc |-> "get", attempt |-> 0, hit |-> FALSE, data |-> NoPayload,
     result |-> NoPayload]

\* the value of the body as fetchJsonWithBackoff reads it: lines 134-141
Read(body) == IF ParseFails(body) THEN body ELSE Parse(body)

\* mutant of Returns: the soft-limit test is left out
ReturnsSoftLimit(resp) ==
    /\ resp.status # 0
    /\ ~isRetryableStatus(resp.status)
    /\ ok(resp)

\* fetchJsonWithBackoff returns for the answer resp (lines 141, 152); else
\* the attempt ends in a wait (lines 127-132, 144-149, 153-158)
Returns(resp) ==
    /\ resp.status # 0
    /\ ~isRetryableStatus(resp.status)
    /\ IF ParseFails(resp.body) THEN ok(resp)
       ELSE ~isAVSoftLimit(Parse(resp.body)) /\ ok(resp)

\* cachedFetchJson(url, cache, ttlMs) is called: lines 173-181
RacingCall(url) ==
    /\ Len(rcalls) < MaxCalls
    /\ rcalls' = Append(rcalls, RacingCallState(url))
    /\ UNCHANGED <<fvars, regvars, opvars, cbvars, cachevars, abortvars, mlvars,
                   purevars, alertvars, loopvars, rcache, rfetched>>

\* cache.get(url) resolves: lines 182-183, and the call of
\* fetchJsonWithBackoff of line 187
RacingGet(k) ==
    /\ k \in DOMAIN rcalls
    /\ rcalls[k].pc = "get"
    /\ rcalls' = IF rcalls[k].url \in DOMAIN rcache
                 THEN [rcalls EXCEPT ![k].pc = "returned", ![k].hit = TRUE,
                                     ![k].result = rcache[rcalls[k].url]]
                 ELSE [rcalls EXCEPT ![k].pc = "fetch"]
    /\ UNCHANGED <<fvars, regvars, opvars, cbvars, cachevars, abortvars, mlvars,
                   purevars, alertvars, loopvars, rcache, rfetched>>

\* a request of the call is answered by resp: lines 122-159, and the call of
\* cache.set of line 191 when fetchJsonWithBackoff returns
RacingFetch(k, resp) ==
    /\ k \in DOMAIN rcalls
    /\ rcalls[k].pc = "fetch"
    /\ LET c == rcalls[k]
           sent == Payload(c.url, k, Read(resp.body))
       IN /\ rfetched' = IF ok(resp) THEN rfetched \cup {sent} ELSE rfetched
          /\ rcalls' = IF Returns(resp)
                       THEN [rcalls EXCEPT ![k].pc = "set", ![k].data = sent]
                       ELSE IF c.attempt < MaxRetries
                       THEN [rcalls EXCEPT ![k].attempt = @ + 1]
                       ELSE [rcalls EXCEPT ![k].pc = "raised"]
    /\ UNCHANGED <<fvars, regvars, opvars, cbvars, cachevars, abortvars, mlvars,
                   purevars, alertvars, loopvars, rcache>>

\* cache.set(url, data, ttlMs) writes the entry and resolves: lines 190-194
RacingSet(k) ==
    /\ k \in DOMAIN rcalls
    /\ rcalls[k].pc = "set"
    /\ rcache' = [u \in DOMAIN rcache \cup {rcalls[k].url} |->
                     IF u = rcalls[k].url THEN rcalls[k].data ELSE rcache[u]]
    /\ rcalls' = [rcalls EXCEPT ![k].pc = "returned", ![k].result = rcalls[k].data]
    /\ UNCHANGED <<fvars, regvars, opvars, cbvars, cachevars, abortvars, mlvars,
                   purevars, alertvars, loopvars, rfetched>>

\* ------------------------------------------------------------------------
\* Initial state
\* ------------------------------------------------------------------------
InitQuiet ==
    /\ fpc = "idle"
    /\ o = BACKOFF_DEFAULTS
    /\ attempt = 0
    /\ lastErr = NoErr
    /\ requests = 0
    /\ nsleeps = 0
    /\ lastSleep = -1
    /\ onRetry = "none"
    /\ retries = <<>>
    /\ ncallbacks = 0
    /\ lastResp = NetworkFailure
    /\ transcript = <<>>
    /\ fresult = NoResult
    /\ providers = <<>>
    /\ defaultProviderId = NoId
    /\ fallbackProviderId = NoId
    /\ rpc = "idle"
    /\ rop = "quote"
    /\ preferred = NoId
    /\ order = <<>>
    /\ idx = 1
    /\ lastError = NoErr
    /\ rlog = <<>>
    /\ rresult = NoResult
    /\ script = NoScript
    /\ outcomes = NoOutcomes
    /\ cache = "null"
    /\ entry = NoEntry
    /\ now = 0
    /\ cttl = 1
    /\ cpc = "idle"
    /\ cgot = NotAsked
    /\ cresult = NoResult
    /\ nfired = 0
    /\ waited = 0
    /\ aborted = FALSE
    /\ abortedAt = NotAborted
    /\ items = <<>>
    /\ limit = 1
    /\ mi = 0
    /\ active = 0
    /\ results = <<>>
    /\ inv = <<>>
    /\ started = <<>>
    /\ mpromise = NoPromise
    /\ queue = <<>>
    /\ rejections = <<>>
    /\ apc = "idle"
    /\ loaded = <<>>
    /\ ai = 0
    /\ events = <<>>
    /\ alog = <<>>
    /\ isRunning = FALSE
    /\ timeoutId = 0
    /\ signalAborted = FALSE
    /\ loops = <<>>
    /\ rcalls = <<>>
    /\ rcache = <<>>
    /\ rfetched = {}

\* the same with an empty alerts file and no WatchMode or AlertMonitor
InitIdle ==
    /\ InitQuiet
    /\ alerts = <<>>
    /\ instance = "none"

\* nothing is in progress
Init ==
    /\ InitIdle
    /\ call = NoCall
    /\ frame = NoFrame
    /\ ret = NotCalled

\* ------------------------------------------------------------------------
\* Direct calls of fetchJsonWithBackoff with a recording callback
\* ------------------------------------------------------------------------
Next ==
    \/ \E b \in BackoffOpts : FetchCall(b, "record")
    \/ \E resp \in Responses, j \in JitterValues(o) : HttpRetryable(resp, j)
    \/ \E resp \in Responses, j \in JitterValues(o) : SoftLimited(resp, j)
    \/ \E resp \in Responses : ReturnText(resp)
    \/ \E resp \in Responses : ReturnData(resp)
    \/ \E resp \in Responses, j \in JitterValues(o) : Caught(resp, j)
    \/ Exhausted
    \/ FetchDone

Spec == Init /\ [][Next]_vars

\* ------------------------------------------------------------------------
\* A registry of test doubles
\* ------------------------------------------------------------------------
NextRegistry ==
    \/ \E p \in MockProviders : register(p)
    \/ \E id \in MockIds \cup {UnknownId} : setDefault(id)
    \/ \E id \in MockIds \cup {UnknownId} : setFallback(id)
    \/ \E op \in DataOps \cup NewsOps, pid \in {"p1", "p2", UnknownId, NoId} :
          RegistryCall(op, pid)
    \/ IsAvailableFalse
    \/ IsAvailableThrows
    \/ MockSucceeds
    \/ MockFails
    \/ RegistryExhausted
    \/ RegistryDone

SpecRegistry == Init /\ [][NextRegistry]_vars

\* ------------------------------------------------------------------------
\* A registry of the two adapters, over the fetcher
\* ------------------------------------------------------------------------
NextAdapters ==
    \/ \E p \in AdapterProviders : register(p)
    \/ \E op \in DataOps, pid \in AdapterIds \cup {NoId} : RegistryCall(op, pid)
    \/ IsAvailableFalse
    \/ AdapterFetch
    \/ \E resp \in AdapterResponses, j \in JitterValues(o) : HttpRetryable(resp, j)
    \/ \E resp \in AdapterResponses, j \in JitterValues(o) : SoftLimited(resp, j)
    \/ \E resp \in AdapterResponses : ReturnText(resp)
    \/ \E resp \in AdapterResponses : ReturnData(resp)
    \/ \E resp \in AdapterResponses, j \in JitterValues(o) : Caught(resp, j)
    \/ Exhausted
    \/ AdapterFetchRaised
    \/ AdapterThrowsNoData
    \/ AdapterReturns
    \/ RegistryExhausted
    \/ RegistryDone

SpecAdapters == Init /\ [][NextAdapters]_vars

\* ------------------------------------------------------------------------
\* Calls of fetchJsonWithBackoff against a scripted transport, with each kind
\* of callback
\* ------------------------------------------------------------------------
NextCallback ==
    \/ \E s \in Scripts, b \in RetryOpts : NewScript(s, b)
    \/ \E cb \in Callbacks : ScriptedCall(cb)
    \/ HasAnswer /\ \E j \in JitterValues(o) : HttpRetryable(Answer, j)
    \/ HasAnswer /\ \E j \in JitterValues(o) : SoftLimited(Answer, j)
    \/ HasAnswer /\ ReturnText(Answer)
    \/ HasAnswer /\ ReturnData(Answer)
    \/ HasAnswer /\ \E j \in JitterValues(o) : Caught(Answer, j)
    \/ HasAnswer /\ CallbackThrows(Answer)
    \/ Exhausted
    \/ ScriptedDone

SpecCallback == Init /\ [][NextCallback]_vars

\* ------------------------------------------------------------------------
\* Calls of cachedFetchJson, with and without a cache
\* ------------------------------------------------------------------------
NextCache ==
    \/ Tick
    \/ \E ttl \in Ttls, b \in RetryOpts : CachedCallNoCache(ttl, b)
    \/ \E c \in CacheObjects, ttl \in Ttls : CacheHit(c, ttl)
    \/ \E c \in CacheObjects, ttl \in Ttls, b \in RetryOpts : CacheMiss(c, ttl, b)
    \/ \E c \in CacheObjects, ttl \in Ttls : CacheGetFails(c, ttl)
    \/ \E resp \in ScriptAnswers, j \in JitterValues(o) : HttpRetryable(resp, j)
    \/ \E resp \in ScriptAnswers, j \in JitterValues(o) : SoftLimited(resp, j)
    \/ \E resp \in ScriptAnswers : ReturnText(resp)
    \/ \E resp \in ScriptAnswers : ReturnData(resp)
    \/ \E resp \in ScriptAnswers, j \in JitterValues(o) : Caught(resp, j)
    \/ Exhausted
    \/ CachedFetchRaised
    \/ CachedReturnsNoCache
    \/ CacheStore
    \/ CacheSetFails
    \/ CachedDone

SpecCache == Init /\ [][NextCache]_vars

\* ------------------------------------------------------------------------
\* Calls of fetchJsonWithBackoff whose waits take time, and a user who aborts
\* ------------------------------------------------------------------------
NextAbort ==
    \/ \E b \in RetryOpts : AbortableCall(b)
    \/ ~Waiting /\ \E resp \in ScriptAnswers, j \in JitterValues(o) :
                       HttpRetryable(resp, j)
    \/ ~Waiting /\ \E resp \in ScriptAnswers, j \in JitterValues(o) :
                       SoftLimited(resp, j)
    \/ ~Waiting /\ \E resp \in ScriptAnswers : ReturnText(resp)
    \/ ~Waiting /\ \E resp \in ScriptAnswers : ReturnData(resp)
    \/ ~Waiting /\ \E resp \in ScriptAnswers, j \in JitterValues(o) : Caught(resp, j)
    \/ ~Waiting /\ Exhausted
    \/ TimePasses
    \/ TimerFires
    \/ Abort
    \/ AbortableDone

SpecAbort == Init /\ [][NextAbort]_vars

\* ------------------------------------------------------------------------
\* Calls of mapLimit whose invocations settle in any order
\* ------------------------------------------------------------------------
NextMapLimit ==
    \/ \E its \in ItemLists, lim \in Limits : MapLimitCall(its, lim)
    \/ \E k \in 1..MaxItems : FnFulfils(k)
    \/ \E k \in 1..MaxItems : FnRejects(k)
    \/ \E k \in 1..MaxItems : ThenStores(k)
    \/ \E k \in 1..MaxItems : CatchRejects(k)
    \/ \E k \in 1..MaxItems : Finally(k)
    \/ MapLimitDone

SpecMapLimit == Init /\ [][NextMapLimit]_vars

\* the same calls when every invocation settles and every reaction of a
\* settled promise runs
SpecMapLimitFair ==
    /\ Init
    /\ [][NextMapLimit]_vars
    /\ \A k \in 1..MaxItems :
          /\ WF_vars(FnFulfils(k) \/ FnRejects(k))
          /\ WF_vars(ThenStores(k))
          /\ WF_vars(CatchRejects(k))
          /\ WF_vars(Finally(k))

\* ------------------------------------------------------------------------
\* determineSignal applied to each input
\* ------------------------------------------------------------------------
InitSignal ==
    /\ InitIdle
    /\ call \in SignalCalls
    /\ frame = NoFrame
    /\ ret = NotCalled

NextSignal == DetermineSignal

SpecSignal == InitSignal /\ [][NextSignal]_vars

\* ------------------------------------------------------------------------
\* fetchQuote of each adapter applied to each payload
\* ------------------------------------------------------------------------
InitQuote ==
    /\ InitIdle
    /\ call \in QuoteCalls
    /\ frame = NoFrame
    /\ ret = NotCalled

NextQuote == MapQuote

SpecQuote == InitQuote /\ [][NextQuote]_vars

\* ------------------------------------------------------------------------
\* Each indicator applied to each bar series
\* ------------------------------------------------------------------------
InitIndicators ==
    /\ InitIdle
    /\ call \in IndicatorCalls
    /\ frame = NoFrame
    /\ ret = NotCalled

NextIndicators ==
    \/ RSIEnter
    \/ RSISmooth
    \/ RSIReturn
    \/ SMACall
    \/ MACDCall

SpecIndicators == InitIndicators /\ [][NextIndicators]_vars

\* ------------------------------------------------------------------------
\* calculateSMA applied to each constant series
\* ------------------------------------------------------------------------
InitConstantSMA ==
    /\ InitIdle
    /\ call \in ConstantSMACalls
    /\ frame = NoFrame
    /\ ret = NotCalled

NextConstantSMA ==
    \/ SMA64Enter
    \/ SMA64Reduce
    \/ SMA64Mean
    \/ SMA64Return

SpecConstantSMA == InitConstantSMA /\ [][NextConstantSMA]_vars

\* ------------------------------------------------------------------------
\* computeMetrics applied to each list of bars
\* ------------------------------------------------------------------------
InitMetrics ==
    /\ InitIdle
    /\ call \in MetricCalls
    /\ frame = NoFrame
    /\ ret = NotCalled

NextMetrics ==
    \/ MetricsEnter
    \/ MetricsStep
    \/ MetricsReturn

SpecMetrics == InitMetrics /\ [][NextMetrics]_vars

\* ------------------------------------------------------------------------
\* calculateRSIHistory applied to each bar series
\* ------------------------------------------------------------------------
InitRSIHistory ==
    /\ InitIdle
    /\ call \in RSIHistoryCalls
    /\ frame = NoFrame
    /\ ret = NotCalled

NextRSIHistory == RSIHistoryCall

SpecRSIHistory == InitRSIHistory /\ [][NextRSIHistory]_vars

\* ------------------------------------------------------------------------
\* detectSMACross applied to each bar series
\* ------------------------------------------------------------------------
InitSMACross ==
    /\ InitIdle
    /\ call \in SMACrossCalls
    /\ frame = NoFrame
    /\ ret = NotCalled

NextSMACross == SMACrossCall

SpecSMACross == InitSMACross /\ [][NextSMACross]_vars

\* ------------------------------------------------------------------------
\* checkAlerts runs one after the other over one alerts file
\* ------------------------------------------------------------------------
InitAlerts ==
    /\ InitQuiet
    /\ alerts \in AlertFiles
    /\ instance = "none"
    /\ call = NoCall
    /\ frame = NoFrame
    /\ ret = NotCalled

NextAlerts ==
    \/ CheckAlertsCall
    \/ \E context \in AlertContexts : CheckAlert(context)
    \/ UpdateAlertDone
    \/ CheckAlertsReturn
    \/ HalfMinutePasses

SpecAlerts == InitAlerts /\ [][NextAlerts]_vars

\* ------------------------------------------------------------------------
\* start(), stop() and abort on one WatchMode or AlertMonitor
\* ------------------------------------------------------------------------
InitLoops ==
    /\ InitQuiet
    /\ alerts = <<>>
    /\ instance \in {"WatchMode", "AlertMonitor"}
    /\ call = NoCall
    /\ frame = NoFrame
    /\ ret = NotCalled

NextLoops ==
    \/ \E signal \in BOOLEAN : WatchStart(signal)
    \/ \E l \in 1..MaxStarts : WatchUpdateCompletes(l)
    \/ \E l \in 1..MaxStarts : WatchTimerFires(l)
    \/ Stop
    \/ ControllerAbort
    \/ MonitorStart
    \/ \E l \in 1..MaxStarts : MonitorCheckCompletes(l)
    \/ \E l \in 1..MaxStarts : MonitorTimerFires(l)

SpecLoops == InitLoops /\ [][NextLoops]_vars

\* the same when every fetch and callback in flight settles and every timer
\* that is not cleared fires
SpecLoopsFair ==
    /\ InitLoops
    /\ [][NextLoops]_vars
    /\ \A l \in 1..MaxStarts :
          /\ WF_vars(WatchUpdateCompletes(l))
          /\ WF_vars(WatchTimerFires(l))
          /\ WF_vars(MonitorCheckCompletes(l))
          /\ WF_vars(MonitorTimerFires(l))

\* ------------------------------------------------------------------------
\* Concurrent cachedFetchJson calls on one cache
\* ------------------------------------------------------------------------
NextRacing ==
    \/ \E url \in RacingUrls : RacingCall(url)
    \/ \E k \in 1..MaxCalls : RacingGet(k)
    \/ \E k \in 1..MaxCalls, resp \in RacingResponses : RacingFetch(k, resp)
    \/ \E k \in 1..MaxCalls : RacingSet(k)

SpecRacing == Init /\ [][NextRacing]_vars

\* ========================================================================
\* Properties of fetchJsonWithBackoff (checked under Spec)
\* ========================================================================
Last(s) == s[Len(s)]

\* a response with a non-2xx status that is neither 429 nor 5xx
NonRetryableFailure(resp) ==
    resp.status # 0 /\ ~ok(resp) /\ ~isRetryableStatus(resp.status)

\* C1: once the transport has answered with a non-2xx, non-retryable status, the
\* call has raised the error carrying that status and body, and nothing
\* followed that answer: no wait, no callback, no further request (so exactly
\* one request when it was the first answer).
C1_NonRetryableRaisesAtOnce ==
    (fpc \in {"running", "returned", "raised"} /\ requests >= 1
     /\ NonRetryableFailure(lastResp))
    => /\ fpc = "raised"
       /\ fresult = Raised(HttpErr(lastResp))
       /\ nsleeps = requests - 1
       /\ ncallbacks = requests - 1

\* the kind of failure an answer is
FailureKind(resp) ==
    IF resp.status = 0 THEN "network"
    ELSE IF isRetryableStatus(resp.status) THEN "http"
    ELSE IF ~ParseFails(resp.body) /\ isAVSoftLimit(Parse(resp.body)) THEN "softlimit"
    ELSE "http"

\* C2: when the call raises after its retries, the error raised is the one of
\* the most recent failed attempt: it names the failure (network, HTTP status,
\* soft limit) of the last answer.
C2_RaisesMostRecentFailure ==
    fpc = "raised"
    => /\ fresult.err.kind = FailureKind(lastResp)
       /\ fresult.err.status = lastResp.status

\* texts that contain 'frequency', 'limit' or 'please consider' in any case
MarkerTexts == {"Our standard API rate LIMIT is 25 requests per day",
                "API call Frequency is 5 calls per minute",
                "Please Consider upgrading"}

\* the body is a JSON object whose note (Note, or Information when it has no
\* Note) is a text with a marker
SoftLimitNote(body) ==
    /\ body.fmt = "json"
    /\ body.payload # "null"
    /\ (IF body.Note # Absent THEN body.Note ELSE body.Information) \in MarkerTexts

\* the transport has answered 429 k times and then 200
Answered429sThen200 ==
    /\ Len(transcript) >= 1
    /\ Last(transcript) = 200
    /\ \A i \in 1..(Len(transcript) - 1) : transcript[i] = 429

\* C3: when the transport has answered HTTP 429 k times (k <= maxRetries) and
\* then 200 with a JSON body (one that is no soft-limit note), the call has
\* returned that body after exactly k+1 requests, the callback was invoked
\* exactly k times, with attempt = 0..k-1 and before each wait, and the delays
\* without their jitter part never decrease with the attempt number.
C3_ReturnsAfterK429 ==
    (fpc \in {"running", "returned", "raised"} /\ Answered429sThen200
     /\ Len(transcript) - 1 <= o.maxRetries
     /\ lastResp.body.fmt = "json" /\ ~SoftLimitNote(lastResp.body))
    => LET k == Len(transcript) - 1
       IN /\ fpc = "returned"
          /\ fresult = Returned(lastResp.body)
          /\ requests = k + 1
          /\ Len(retries) = k
          /\ ncallbacks = k
          /\ nsleeps = k
          /\ \A i \in 1..k :
                /\ retries[i].attempt = i - 1
                /\ retries[i].reason = Reason("HTTP", 429)
                /\ retries[i].delayMs - baseDelay(i - 1, o) \in 0..o.jitterMs
          /\ \A i, j \in 1..k :
                i <= j => baseDelay(i - 1, o) <= baseDelay(j - 1, o)

C3_Witness ==
    /\ fpc = "returned"
    /\ transcript = <<429, 429, 200>>
    /\ fresult = Returned(DataBody)
    /\ Len(retries) = 2
    /\ retries[1].delayMs < retries[2].delayMs

\* the body is JSON and its Note or its Information is a text with a marker
HasMarker(body) ==
    /\ body.fmt = "json"
    /\ (body.Note \in MarkerTexts \/ body.Information \in MarkerTexts)

\* what C10 says of the call once such a body has been received: the body was
\* not returned, the attempt was retried, and the wait and the delayMs given
\* to the callback are at least 10000 ms
SoftLimitHandled ==
    /\ fpc # "returned"
    /\ attempt = requests
    /\ nsleeps = requests
    /\ lastSleep >= 10000
    /\ Len(retries) = requests
    /\ Last(retries).delayMs = lastSleep
    /\ Last(retries).reason = Reason("soft limit", 0)

\* C10 as stated: whenever the body of the received response is JSON whose
\* Note or Information text contains a marker, the body is never returned, the
\* attempt is retried and the wait is at least 10000 ms.
C10_AnyMarkedBody ==
    (fpc \in {"running", "returned", "raised"} /\ requests >= 1
     /\ lastResp.status # 0 /\ HasMarker(lastResp.body))
    => SoftLimitHandled

\* C10, amended: the same, for a response whose status is not 429/5xx and
\* whose note - Note, or Information when the body has no Note - contains a
\* marker.
C10_SoftLimitRetriedSlowly ==
    (fpc \in {"running", "returned", "raised"} /\ requests >= 1
     /\ lastResp.status # 0 /\ ~isRetryableStatus(lastResp.status)
     /\ SoftLimitNote(lastResp.body))
    => SoftLimitHandled

C10_Witness ==
    /\ fpc = "running"
    /\ o.baseDelayMs = 800
    /\ lastResp = [status |-> 200,
                   body |-> Body("json", Absent,
                                 "Our standard API rate LIMIT is 25 requests per day",
                                 "nofield")]
    /\ lastSleep = 10000
    /\ Last(retries).delayMs = 10000

\* ========================================================================
\* Properties of the retry callback (checked under SpecCallback)
\* ========================================================================
\* C11: the retry callback does not affect control flow: for the same sequence
\* of transport answers and the same options, the calls made with no callback,
\* with a callback that returns and with a callback that throws issue the same
\* number of requests and end with the same returned value or raised error.
C11_CallbackKeepsControlFlow ==
    \A a, b \in Callbacks :
        (outcomes[a] # NoOutcome /\ outcomes[b] # NoOutcome)
        => outcomes[a] = outcomes[b]

\* ========================================================================
\* Properties of cachedFetchJson (checked under SpecCache)
\* ========================================================================
CachedSettled == cpc \in {"returned", "raised"}

\* C12: an entry is served from the cache only if its age since it was
\* written is <= its TTL: when the cache has returned an entry older than
\* that, the call has not returned it but has performed the network fetch,
\* and when the fetch succeeded it has stored and returned the fresh payload.
C12_StaleEntryNotServed ==
    (CachedSettled /\ cgot.kind = "entry" /\ cgot.age > cgot.ttlMs)
    => /\ requests >= 1
       /\ fpc = "returned" =>
             /\ cresult = Returned(fresult.value)
             /\ entry = Entry(fresult.value, cttl)

\* C13: the cache is never required for correctness: with cache = null the
\* call returns or raises exactly what fetchJsonWithBackoff did; with a cache
\* that gave no entry for the URL (also when cache.get failed) the network
\* fetch was performed, and whenever it succeeded the caller has its payload
\* (also when cache.set failed).
C13_CacheNeverRequired ==
    /\ (CachedSettled /\ cache = "null")
       => /\ fpc \in {"returned", "raised"}
          /\ cresult = fresult
    /\ (CachedSettled /\ cache # "null" /\ cgot.kind # "entry")
       => /\ fpc \in {"returned", "raised"}
          /\ fpc = "returned" => cresult = Returned(fresult.value)

\* ========================================================================
\* Properties of cancellation (checked under SpecAbort)
\* ========================================================================
\* C14: when the user has aborted while the call was waiting between attempts,
\* that wait does not run to its full delay, and the call issues no request
\* after the abort.
C14_AbortEndsWait ==
    (aborted /\ abortedAt.inWait)
    => /\ requests = abortedAt.requests
       /\ (Waiting /\ nsleeps = abortedAt.nsleeps) => waited < lastSleep

\* ========================================================================
\* Properties of mapLimit (checked under SpecMapLimit)
\* ========================================================================
\* positions whose invocation is in the given state
InvIn(states) == {k \in DOMAIN inv : inv[k] \in states}

\* C15: with limit >= 1, in every reachable state the number of fn invocations
\* that have started and not yet settled is at most limit (as is the count
\* kept in active), and the items are started in index order, whatever the
\* order the invocations complete in.
C15_AtMostLimitInFlight ==
    /\ Cardinality(InvIn({"pending"})) <= limit
    /\ active <= limit
    /\ active = Cardinality(InvIn({"pending", "fulfilled", "rejected", "handled"}))
    /\ started = [k \in 1..mi |-> k]
    /\ InvIn({"unstarted"}) = (mi + 1)..Len(items)

C15_Witness ==
    /\ limit = 2
    /\ Len(items) = 3
    /\ inv = <<"pending", "done", "pending">>
    /\ started = <<1, 2, 3>>

\* C16: when every fn invocation fulfils, the array the promise resolves with
\* has the length of items and holds at each index the value of
\* fn(items[i], i), for every interleaving of the completions; the promise
\* does not resolve before every invocation has fulfilled (and its callbacks
\* have run).
C16_ResultsInOriginalOrder ==
    mpromise.state = "resolved" =>
          /\ InvIn({"done"}) = DOMAIN items
          /\ Len(mpromise.value) = Len(items)
          /\ \A k \in DOMAIN items : mpromise.value[k] = FnValue(items, k)

C16_Witness ==
    /\ mpromise.state = "resolved"
    /\ limit = 2
    /\ items = <<"AAPL", "MSFT", "AAPL">>
    /\ mpromise.value = <<FnValue(items, 1), FnValue(items, 2), FnValue(items, 3)>>

\* C30: mapLimit always settles and processes every item once: for every
\* limit >= 1 and every item list (including the empty list), if each fn
\* invocation eventually settles then fn is invoked exactly once per item and
\* the returned promise eventually settles; when some invocation rejects, the
\* promise rejects with the first rejection while the remaining items are
\* still started and run to completion.
C30_SettlesAndRunsEveryItem ==
    /\ [](\A a, b \in DOMAIN started : a # b => started[a] # started[b])
    /\ [](InvIn({"done"}) = DOMAIN inv => started = [k \in 1..Len(items) |-> k])
    /\ [](mpromise.state = "rejected" =>
             rejections # <<>> /\ mpromise.err = FnErr(rejections[1]))
    /\ [](rejections # <<>> => mpromise.state # "resolved")
    /\ (mpromise.state = "pending") ~> (mpromise.state \in {"resolved", "rejected"})
    /\ \A k \in 1..MaxItems :
          (k \in DOMAIN inv /\ inv[k] # "done") ~> (k \in DOMAIN inv /\ inv[k] = "done")

\* the first invocation rejected, the promise is rejected with its error, and
\* the items after it were started and have run to their end
C30_Witness ==
    /\ limit = 2
    /\ Len(items) = 3
    /\ rejections = <<2, 1>>
    /\ mpromise = Promise("rejected", <<>>, FnErr(2))
    /\ inv = <<"done", "done", "done">>
    /\ results[3] = FnValue(items, 3)

\* ========================================================================
\* Properties of determineSignal (checked under SpecSignal)
\* ========================================================================
\* the zones of the call in progress
ZonesOfCall == calculateZones(call.high52Week, call.buyPct, call.sellPct)

\* the inputs determineSignal has no signal for
NoSignalInput ==
    \/ ~isFinite(call.price)
    \/ ~isFinite(call.high52Week)
    \/ RLe(call.high52Week, Zero)

\* C17: determineSignal returns null iff price or high52Week is non-finite or
\* high52Week <= 0; otherwise SELL iff price <= sellThreshold, else BUY iff
\* buyZoneLow <= price <= buyZoneHigh, else HOLD. The SELL test comes first:
\* whenever sellThreshold >= buyZoneLow, a price on the shared boundary (at
\* the sell threshold, inside the buy zone) yields SELL, and a price above
\* high52Week yields HOLD.
C17_SignalRule ==
    (call.fn = "determineSignal" /\ ret.returned)
    => /\ ret.value = Null <=> NoSignalInput
       /\ ~NoSignalInput =>
             LET z == ZonesOfCall
                 sell == RLe(call.price, z.sellThreshold)
                 buy == RLe(z.buyZoneLow, call.price) /\ RLe(call.price, z.buyZoneHigh)
             IN /\ ret.value = "SELL" <=> sell
                /\ ret.value = "BUY" <=> (~sell /\ buy)
                /\ ret.value = "HOLD" <=> (~sell /\ ~buy)
                /\ (RLe(z.buyZoneLow, z.sellThreshold) /\ call.price = z.sellThreshold)
                   => ret.value = "SELL"
                /\ RLt(call.high52Week, call.price) => ret.value = "HOLD"

C17_Witness ==
    /\ call.fn = "determineSignal"
    /\ ret = Ret("SELL")
    /\ call.buyPct = call.sellPct
    /\ call.sellPct = Whole(10)
    /\ call.high52Week = Whole(MaxPrice)
    /\ call.price = ZonesOfCall.buyZoneLow
    /\ RLe(call.price, ZonesOfCall.buyZoneHigh)

\* ========================================================================
\* Properties of the Quote (checked under SpecQuote)
\* ========================================================================
\* the payload of the call carries a price
CarriesPrice ==
    IF call.provider = "alpha_vantage"
    THEN isFinite(Number(call.payload.price))
    ELSE call.payload.c # Undefined

\* x == y of two numbers: never true of NaN or undefined
NumEq(x, y) ==
    /\ x # Undefined /\ y # Undefined
    /\ x # NaN /\ y # NaN
    /\ x = y

\* changePercent == change / previousClose whenever previousClose != 0
QuoteInvariant(q) ==
    q.previousClose # Zero
    => NumEq(q.changePercent, Div(q.change, q.previousClose))

\* C18: every Quote fetchQuote of either adapter returns for a payload that
\* carries a price satisfies changePercent == change / previousClose whenever
\* previousClose != 0; for Alpha Vantage previousClose is price - change when
\* the payload omits it.
C18_ChangePercentInvariant ==
    (call.fn = "fetchQuote" /\ ret.returned /\ ret.value # ThrewNoData
     /\ CarriesPrice)
    => /\ QuoteInvariant(ret.value)
       /\ (call.provider = "alpha_vantage" /\ call.payload.previousClose = Absent)
          => ret.value.previousClose = Sub(ret.value.price, ret.value.change)

\* ========================================================================
\* Properties of the indicators (checked under SpecIndicators)
\* ========================================================================
\* the least number of bars the indicator of the call needs
BarsNeeded ==
    CASE call.fn = "calculateRSI" -> call.period + 1
      [] call.fn = "calculateSMA" -> call.period
      [] call.fn = "calculateMACD" -> call.periods.slow + call.periods.signal - 1
      [] OTHER -> 0

\* C19: insufficient input never raises: calculateRSI returns null for every
\* series shorter than period+1 (all periods >= 1), calculateSMA for every
\* series shorter than period, calculateMACD for every series shorter than
\* slow+signal-1; with at least that many bars each returns a result that is
\* not null.
C19_NullIffTooFewBars ==
    (call.fn \in {"calculateRSI", "calculateSMA", "calculateMACD"})
    => /\ ret.returned => (ret.value = NullObject <=> Len(call.bars) < BarsNeeded)
       /\ frame # NoFrame => Len(call.bars) >= BarsNeeded

C19_Witness ==
    /\ call.fn = "calculateRSI"
    /\ call.period = 3
    /\ Len(call.bars) = 3
    /\ ret = Ret(NullObject)

StrictlyIncreasing(bars) ==
    \A j \in 1..(Len(bars) - 1) : RLt(bars[j].close, bars[j + 1].close)
StrictlyDecreasing(bars) ==
    \A j \in 1..(Len(bars) - 1) : RLt(bars[j + 1].close, bars[j].close)

\* C20: calculateRSI on a series of at least period+1 bars with strictly
\* increasing closes: the average loss is 0 after the seed and after every
\* smoothing step, the value is 100 and the interpretation 'overbought'; with
\* strictly decreasing closes the average gain is 0 throughout, the value is
\* 0 and the interpretation 'oversold'.
C20_MonotoneSeries ==
    (call.fn = "calculateRSI" /\ Len(call.bars) >= call.period + 1)
    => /\ StrictlyIncreasing(call.bars) =>
             /\ frame # NoFrame => frame.avgLoss = Zero /\ RLt(Zero, frame.avgGain)
             /\ ret.returned =>
                   /\ ret.value.value = Whole(100)
                   /\ ret.value.interpretation = "overbought"
       /\ StrictlyDecreasing(call.bars) =>
             /\ frame # NoFrame => frame.avgGain = Zero /\ RLt(Zero, frame.avgLoss)
             /\ ret.returned =>
                   /\ ret.value.value = Zero
                   /\ ret.value.interpretation = "oversold"

C20_Witness ==
    /\ call.fn = "calculateRSI"
    /\ call.period = 1
    /\ call.bars = <<Bar(4), Bar(3), Bar(2), Bar(1)>>
    /\ frame.pc = "done"
    /\ frame.i = 3
    /\ ret.returned
    /\ ret.value.interpretation = "oversold"

\* ========================================================================
\* Properties of calculateSMA on constant series (checked under
\* SpecConstantSMA)
\* ========================================================================
\* C21: calculateSMA on a constant series: for every series of at least
\* period bars whose closes all equal c, the returned value equals c and
\* priceRelation is 'at'.
C21_ConstantSeries ==
    (call.fn = "calculateSMA64" /\ ret.returned)
    => /\ ret.value.value = Hundredths(call.cents)
       /\ ret.value.priceRelation = "at"

\* ========================================================================
\* Properties of computeMetrics (checked under SpecMetrics)
\* ========================================================================
\* the finite split-adjusted highs of the first 270 bars of the call
FiniteHighs ==
    {h \in {AdjHigh(MetricBar(call, j)) : j \in 1..Min(call.n, 270)} : isFinite(h)}

\* the places among the first 30 bars of the call with a finite volume
FiniteVolumes ==
    {j \in 1..Min(call.n, 30) : isFinite(MetricBar(call, j).volume)}

\* the sum of the finite volumes at places lo..hi
RECURSIVE VolumeSum(_, _)
VolumeSum(lo, hi) ==
    IF lo > hi THEN Zero
    ELSE IF lo = hi
    THEN (IF lo \in FiniteVolumes THEN MetricBar(call, lo).volume ELSE Zero)
    ELSE RAdd(VolumeSum(lo, (lo + hi) \div 2), VolumeSum((lo + hi) \div 2 + 1, hi))

\* C22: computeMetrics never raises and uses NaN as the only failure value:
\* high52Week is NaN exactly when none of the first 270 bars has a finite
\* split-adjusted high (in particular for an empty list), and avgVolume30Day
\* is NaN exactly when none of the first 30 bars has a finite volume;
\* otherwise they are the maximum adjusted high of the window and the mean of
\* the finite volumes among the first 30 bars.
C22_MetricsOrNaN ==
    (call.fn = "computeMetrics" /\ ret.returned)
    => /\ (ret.value.high52Week = NaN) <=> (FiniteHighs = {})
       /\ FiniteHighs # {} =>
             /\ ret.value.high52Week \in FiniteHighs
             /\ \A h \in FiniteHighs : RLe(h, ret.value.high52Week)
       /\ (ret.value.avgVolume30Day = NaN) <=> (FiniteVolumes = {})
       /\ FiniteVolumes # {} =>
             ret.value.avgVolume30Day
                = RDiv(VolumeSum(1, Min(call.n, 30)), Whole(Cardinality(FiniteVolumes)))

\* the bar with the highest high lies just outside the window
C22_Witness ==
    /\ call.fn = "computeMetrics"
    /\ call.n = 271
    /\ call.base = "plain"
    /\ call.at = 271
    /\ call.special = "nanAdjusted"
    /\ ret.returned
    /\ ret.value = [high52Week |-> Whole(10), avgVolume30Day |-> Whole(100)]

\* ========================================================================
\* Properties of calculateRSIHistory (checked under SpecRSIHistory)
\* ========================================================================
\* C25: calculateRSIHistory uses the same recurrence as calculateRSI: for
\* every series of n >= period+1 bars it returns n - period values, and its
\* last value equals calculateRSI(bars, period).value, including for series
\* whose average loss is exactly 0 (e.g. strictly increasing or flat closes).
C25_HistoryEndsWithRSI ==
    (/\ call.fn = "calculateRSIHistory"
     /\ ret.returned
     /\ Len(call.bars) >= call.period + 1)
    => /\ Len(ret.value) = Len(call.bars) - call.period
       /\ ret.value[Len(ret.value)] = calculateRSI(call.bars, call.period).value

\* ========================================================================
\* Properties of detectSMACross (checked under SpecSMACross)
\* ========================================================================
\* the mean of the last period closes
MeanClose(bars, period) ==
    RDiv(SumCloses(bars, Len(bars) - period + 1), Whole(period))

\* SMA_short - SMA_long over the bars
SMADifference(bars) ==
    RSub(MeanClose(bars, call.shortPeriod), MeanClose(bars, call.longPeriod))

\* C26: detectSMACross(bars, short, long): returns null for fewer than long+1
\* bars; otherwise, with d_now = SMA_short - SMA_long over all bars and d_prev
\* the same difference over the bars without the last one, it returns
\* 'golden' iff d_prev <= 0 and d_now > 0, 'death' iff d_prev >= 0 and
\* d_now < 0, and 'none' otherwise; golden and death never both hold.
C26_CrossRule ==
    (call.fn = "detectSMACross" /\ ret.returned)
    => IF Len(call.bars) < call.longPeriod + 1 THEN ret.value = Null
       ELSE LET dNow == SMADifference(call.bars)
                dPrev == SMADifference(SubSeq(call.bars, 1, Len(call.bars) - 1))
                golden == RLe(dPrev, Zero) /\ RLt(Zero, dNow)
                death == RLe(Zero, dPrev) /\ RLt(dNow, Zero)
            IN /\ ~(golden /\ death)
               /\ ret.value = "golden" <=> golden
               /\ ret.value = "death" <=> death
               /\ ret.value = "none" <=> ~golden /\ ~death

\* ========================================================================
\* Properties of checkAlerts (checked under SpecAlerts)
\* ========================================================================
\* the cooldown of the alert with the id, in ms
CooldownMsOf(id) ==
    LET alert == CHOOSE a \in {alerts[k] : k \in DOMAIN alerts} : a.id = id
    IN alert.cooldownMinutes * 60000

\* the evaluations before the j-th in which the same alert made an event
EarlierEvents(j) ==
    {k \in 1..(j - 1) : alog[k].id = alog[j].id /\ alog[k].event}

\* C23: alert cooldown: once checkAlerts has triggered an alert at time t (and
\* stored lastTriggered = t), no later checkAlerts run produces an event for
\* that alert before t + cooldownMinutes, even when its condition stays true
\* at every check; the first check at or after t + cooldownMinutes may
\* trigger it again.
C23_Cooldown ==
    \A j \in DOMAIN alog :
        LET early == \E k \in EarlierEvents(j) :
                        alog[j].at < alog[k].at + CooldownMsOf(alog[j].id)
        IN /\ early => ~alog[j].event
           /\ (alog[j].met /\ ~early) => alog[j].event

\* an alert of one minute triggered at 0, held back half a minute later and
\* triggered again at one minute
C23_Witness ==
    /\ Len(alog) >= 3
    /\ alog[1] = [id |-> "a1", at |-> 0, met |-> TRUE, event |-> TRUE]
    /\ alog[2] = [id |-> "a1", at |-> 30000, met |-> TRUE, event |-> FALSE]
    /\ alog[3] = [id |-> "a1", at |-> 60000, met |-> TRUE, event |-> TRUE]
    /\ CooldownMsOf("a1") = 60000

\* ========================================================================
\* Properties of WatchMode and AlertMonitor (checked under SpecLoops and
\* SpecLoopsFair)
\* ========================================================================
\* C27: stopping a loop lets start() finish: for WatchMode and AlertMonitor,
\* once stop() has been called (directly, or for WatchMode through the abort
\* signal) while start() is pending, and every in-flight fetch/callback
\* settles, the pending start() promise eventually resolves and no further
\* update/check cycle begins after the stop, including when stop() arrives
\* during the inter-cycle delay.
C27_StopLetsStartFinish ==
    \A l \in 1..MaxStarts :
        /\ [](l \in DOMAIN loops => ~loops[l].late)
        /\ (l \in DOMAIN loops /\ loops[l].stopped)
              ~> (l \in DOMAIN loops /\ loops[l].pc = "returned")

\* the start() calls that go on issuing cycles
Alive == {l \in DOMAIN loops :
             loops[l].pc = "update" \/ (loops[l].pc = "delay" /\ loops[l].timer = "pending")}

\* C28: WatchMode runs at most one update loop at a time: start() raises
\* 'Watch mode is already running' and changes nothing while a loop is
\* running, and for every interleaving of start(), stop() and fetch
\* completions there are never two loops issuing update cycles on the same
\* instance.
C28_OneLoopAtATime ==
    instance = "WatchMode" => Cardinality(Alive) <= 1

\* C29: WatchMode.start() leaves the instance restartable: whenever a start()
\* call has returned normally, state.isRunning is false, so that a following
\* start() is accepted; this holds also when the AbortSignal passed to start()
\* was already aborted before the call.
C29_ReturnLeavesRestartable ==
    [][instance = "WatchMode" =>
          \A l \in DOMAIN loops :
              (loops[l].pc # "returned" /\ loops'[l].pc = "returned") => ~isRunning']_vars

\* ========================================================================
\* Properties of concurrent cachedFetchJson calls (checked under SpecRacing)
\* ========================================================================
\* the calls that fetched and returned
Fetchers == {k \in DOMAIN rcalls : rcalls[k].pc = "returned" /\ ~rcalls[k].hit}

\* C24: cache state under racing and abandoned fetches: for every
\* interleaving of concurrent cachedFetchJson calls (same or different URLs),
\* every entry in the cache for URL u is a payload that a successful network
\* fetch of u returned; a call that fails or is still retrying writes
\* nothing, a soft-limit body is never stored, and when two calls for u race
\* the entry is the payload of one of them (last write wins) while each
\* caller gets its own fetched payload.
C24_CacheUnderRaces ==
    /\ [](\A u \in DOMAIN rcache :
             /\ rcache[u] \in rfetched
             /\ rcache[u].url = u
             /\ ~isAVSoftLimit(rcache[u].value)
             /\ \E k \in Fetchers : rcalls[k].url = u /\ rcalls[k].result = rcache[u])
    /\ [](\A k \in Fetchers :
             /\ rcalls[k].result \in rfetched
             /\ rcalls[k].result.url = rcalls[k].url
             /\ rcalls[k].result.by = k)
    /\ [][\A k \in DOMAIN rcalls :
             IF rcalls[k].pc = "set" /\ rcalls'[k].pc = "returned"
             THEN rcache'[rcalls[k].url] = rcalls[k].data
             ELSE rcalls'[k].pc \in {"get", "fetch", "set", "raised"}
                     => \A u \in DOMAIN rcache' :
                           rcache'[u].by = k => (u \in DOMAIN rcache /\ rcache[u] = rcache'[u])]_vars

\* two calls for one URL raced, each fetched its own payload, and the entry
\* is the payload of the one that wrote last, here the one that was called
\* first
C24_Witness ==
    /\ Len(rcalls) = 2
    /\ Fetchers = {1, 2}
    /\ rcalls[1].url = rcalls[2].url
    /\ rcalls[1].attempt > 0
    /\ rcalls[1].result # rcalls[2].result
    /\ rcache[rcalls[1].url] = rcalls[1].result

\* ========================================================================
\* Properties of ProviderRegistry (checked under SpecRegistry)
\* ========================================================================
\* positions of the candidates visited so far with the given outcome
Visited(outcome) == {i \in DOMAIN rlog : rlog[i].outcome = outcome}

SetMax(S) == CHOOSE x \in S : \A y \in S : y <= x

Running == rpc \in {"walking", "calling", "returned", "raised"}

\* C4: fetchQuote / fetchDaily visit the candidates in attempt order; the call
\* returns the result of the first candidate that is available and whose
\* operation succeeds; failures of earlier candidates are swallowed (the call
\* raises only after the last candidate); the operation is never invoked on a
\* candidate whose isAvailable() is false; no candidate after the successful
\* one is visited.
C4_FirstSuccessWins ==
    (Running /\ rop \in DataOps)
    => /\ Len(rlog) <= Len(order)
       /\ \A i \in DOMAIN rlog : rlog[i].id = order[i].id
       /\ \A i \in DOMAIN rlog :
             rlog[i].avail = "false" => rlog[i].outcome = "skipped"
       /\ \A i \in Visited("ok") :
             /\ i = Len(rlog)
             /\ rlog[i].avail = "true"
             /\ rpc = "returned"
             /\ rresult = Returned(ProviderValue(order[i].id, rop, TRUE))
       /\ rpc = "returned" => Visited("ok") # {}
       /\ rpc = "raised" => Len(rlog) = Len(order)
       /\ (rpc = "walking" /\ Visited("ok") = {}) => idx = Len(rlog) + 1

C4_Witness ==
    /\ rpc = "returned"
    /\ rop = "quote"
    /\ Len(order) = 3
    /\ Len(rlog) = 2
    /\ rlog[1].outcome = "failed"
    /\ rlog[1].avail = "true"
    /\ rresult = Returned(ProviderValue(order[2].id, "quote", TRUE))

\* C5: fetchQuote / fetchDaily raise exactly when no candidate is both
\* available and successful; the error raised is the one of the last
\* candidate that failed, and the generic 'All providers failed' error when no
\* candidate raised.
C5_RaisesLastError ==
    (rpc \in {"returned", "raised"} /\ rop \in DataOps)
    => /\ rpc = "raised" <=> Visited("ok") = {}
       /\ rpc = "raised" =>
             /\ Len(rlog) = Len(order)
             /\ rresult = Raised(IF Visited("failed") = {} THEN AllFailedErr(rop)
                                 ELSE rlog[SetMax(Visited("failed"))].err)

C5_Witness ==
    /\ rpc = "raised"
    /\ rop = "daily"
    /\ Len(rlog) = 3
    /\ rlog[1].outcome = "failed"
    /\ rlog[2].outcome = "failed"
    /\ rlog[3].outcome = "skipped"
    /\ rlog[1].err # rlog[2].err
    /\ rresult = Raised(rlog[2].err)

\* C6: fetchNews / fetchTopNews never raise: whatever the providers do (no news
\* capability, unavailable, isAvailable or the news call raising), the result
\* is the list of the first provider that succeeds, and the empty list when
\* none does; a provider without the news capability is never visited.
C6_NewsNeverRaises ==
    (Running /\ rop \in NewsOps)
    => /\ rpc # "raised"
       /\ \A i \in DOMAIN rlog : \E j \in DOMAIN providers :
             providers[j].id = rlog[i].id /\ providers[j].news
       /\ \A i \in Visited("ok") :
             /\ i = Len(rlog)
             /\ rresult = Returned(ProviderValue(rlog[i].id, rop, TRUE))
       /\ rpc = "returned" =>
             IF Visited("ok") = {}
             THEN rresult = Returned(EmptyList) /\ Len(rlog) = Len(order)
             ELSE rresult = Returned(ProviderValue(Last(rlog).id, rop, TRUE))

C6_Witness ==
    /\ rpc = "returned"
    /\ rop = "news"
    /\ Len(providers) = 3
    /\ Len(order) = 2
    /\ rlog[1].avail = "throws"
    /\ rlog[2].outcome = "failed"
    /\ rresult = Returned(EmptyList)

\* ids of a sequence of providers
Ids(seq) == [i \in DOMAIN seq |-> seq[i].id]

\* position of id in a sequence of ids that holds it
PosOf(ids, id) == CHOOSE i \in DOMAIN ids : ids[i] = id

\* the attempt list for preferredId is the list the claim describes
IsAttemptOrder(ord, preferredId) ==
    LET ids == Ids(ord)
        regs == Ids(providers)
        p == preferredId # NoId /\ has(preferredId)
        d == defaultProviderId # NoId /\ defaultProviderId # preferredId
        f == /\ fallbackProviderId # NoId
             /\ fallbackProviderId # preferredId
             /\ fallbackProviderId # defaultProviderId
        np == IF p THEN 1 ELSE 0
        nd == IF d THEN 1 ELSE 0
        nf == IF f THEN 1 ELSE 0
        head == np + nd + nf
    IN \* every registered provider exactly once
       /\ Len(ord) = Len(providers)
       /\ Range(ord) = Range(providers)
       /\ \A i, j \in DOMAIN ids : ids[i] = ids[j] => i = j
       \* preferred, default, fallback
       /\ p => ids[1] = preferredId
       /\ d => ids[np + 1] = defaultProviderId
       /\ f => ids[np + nd + 1] = fallbackProviderId
       \* the rest in registration order
       /\ \A i, j \in DOMAIN ids :
             (head < i /\ i < j) => PosOf(regs, ids[i]) < PosOf(regs, ids[j])

\* C7: for every registered set of providers, every default / fallback
\* setting and every preferredId, the attempt list is [preferred if given and
\* registered, default if distinct from preferred, fallback if distinct from
\* both, then the remaining providers in registration order], and it holds
\* every registered provider exactly once; the list an operation walks is that
\* list (for a news operation: its providers with the news capability).
C7_AttemptOrder ==
    /\ rpc = "idle" =>
          \A pid \in MockIds \cup {UnknownId, NoId} :
              IsAttemptOrder(getProviderOrder(pid), pid)
    /\ (rpc = "walking" /\ rop \in DataOps) => IsAttemptOrder(order, preferred)
    /\ (rpc = "walking" /\ rop \in NewsOps) =>
          order = SelectSeq(getProviderOrder(preferred), LAMBDA q : q.news)

C7_Witness ==
    /\ rpc = "walking"
    /\ rop = "quote"
    /\ Len(providers) = 3
    /\ preferred = providers[2].id
    /\ defaultProviderId = providers[3].id
    /\ fallbackProviderId = providers[2].id
    /\ Ids(order) = <<providers[2].id, providers[3].id, providers[1].id>>

\* ========================================================================
\* Properties of the adapters over the fetcher (checked under SpecAdapters)
\* ========================================================================
\* errors fetchJsonWithBackoff raises
IsFetchErr(e) == e.kind \in {"network", "http", "retries"}

\* C8: fetchJsonWithBackoff never issues more than maxRetries+1 requests in a
\* call, and raises only after exactly maxRetries+1 requests; so whenever the
\* registry has moved on from a provider whose fetch failed, that provider's
\* call had issued all maxRetries+1 requests.
C8_BudgetSpentBeforeSurfacing ==
    /\ requests <= o.maxRetries + 1
    /\ fpc = "raised" => requests = o.maxRetries + 1
    /\ \A i \in DOMAIN rlog :
          IsFetchErr(rlog[i].err) =>
             rlog[i].requests = BACKOFF_DEFAULTS.maxRetries + 1

C8_Witness ==
    /\ rpc = "calling"
    /\ idx = 2
    /\ rlog[1].err = NetErr
    /\ rlog[1].requests = 7
    /\ requests = 3

\* a value that carries no usable quote / daily data
NoUsableData(data) == data.fmt # "json" \/ data.payload # "data"

====
